---- MODULE Spec2Model ----
(***************************************************************************)
(* Model of the RIT scraper (src/parser/rit_scraper.py): the poll cycle    *)
(* poll_once, the run loop of main, the checkpoint (ScrapeState.save /     *)
(* ScrapeState.load), the retry controller, the case event detector, the   *)
(* enrichment engine and the dedup recorder.                               *)
(*                                                                         *)
(* Representation of Python / JSON values:                                 *)
(*   - None for an integer or a timestamp is NoneInt, for a string NoneStr;*)
(*   - a price is an exact rational [n, d] with d > 0, None is RatNone;    *)
(*   - an optional object (last_case, the checkpoint file) is a sequence   *)
(*     of length 0 (None / absent) or 1;                                   *)
(*   - a dict keyed by strings is a function whose DOMAIN is its key set;  *)
(*   - a tender / lease item is the parsed JSON object in insertion order: *)
(*     a sequence of <<field, value>> pairs with distinct fields, each     *)
(*     value being its JSON literal text ("1", "\"1\"", "null");           *)
(*   - a ticker is the string itself; a ticker that is the JSON number 7   *)
(*     is written "#7";                                                    *)
(*   - a state.json cut short by an interrupted write is CutFile.          *)
(***************************************************************************)
EXTENDS Integers, Sequences, FiniteSets, TLC

VARIABLES
    state,       \* the in-memory ScrapeState of the running process
    checkpoint,  \* the file state.json: <<>> when absent, else <<document>>
    out,         \* records appended to each .jsonl file by the current poll_once call
    pc,          \* position of the process: the next step of main / poll_once
    args,        \* the argparse.Namespace of the run
    now_ts,      \* poll_once's now_ts, the last reading of the clock
    resp,        \* poll_once's locals (status, payload) of the latest fetch, with its endpoint
    reqs,        \* the endpoint requests issued by the current poll_once call, in order
    book_queue,  \* the tickers of the book loop still to be fetched
    notfound,    \* the endpoints the server has answered 404 for
    first_seen,  \* per ticker, the value first_prices[ticker] was first set to by any run
    case_starts, \* the number of case_start records in case_events.jsonl
    last_seen,   \* per ticker, its {last, mid} in the latest poll that observed it, by any run
    clock_slip,  \* the number of readings of the clock that were at (same) and below
                 \* (back) the reading before them
    tender_payload, \* poll_once's locals (tender_status, tender_payload), NoFetch when unbound
    rt           \* the loop state of a request_json_with_retry call

vars ==
    <<state, checkpoint, out, pc, args, now_ts, resp, reqs, book_queue, notfound,
      first_seen, case_starts, last_seen, clock_slip, tender_payload, rt>>

----------------------------------------------------------------------------
(* Bounds of the model *)

\* the clock readings of poll_once are within 1..MaxClock (1..MaxClock + 1 where the
\* inputs say so); a clock that moves forward gives a behaviour at most as many poll
\* cycles
MaxClock == 2
\* the largest number of clock readings of a behaviour that are not above the
\* reading before them
MaxSlips == 2
\* the largest retry count a request_json_with_retry call is given in SpecRetry
MaxRetries == 3

(* Program constants *)

\* retries: int = 2, the default every call of poll_once uses
DefaultRetries == 2

NoneInt == -1
\* None for a difference of two clock readings: the readings are within
\* 1..MaxClock + 1, so no difference of two of them is this low
NoneDelta == 0 - (MaxClock + 2)
NoneStr == "None"

----------------------------------------------------------------------------
(* Exact arithmetic on prices *)

RatNone == [n |-> 0, d |-> 0]
Rat(k) == [n |-> k, d |-> 1]
IsNone(x) == x.d = 0

Abs(k) == IF k < 0 THEN -k ELSE k

RECURSIVE GCD(_, _)
GCD(a, b) == IF b = 0 THEN a ELSE GCD(b, a % b)

Norm(n, d) ==
    LET s == IF d < 0 THEN -1 ELSE 1
        g == GCD(Abs(n), Abs(d))
    IN  [n |-> (s * n) \div g, d |-> (s * d) \div g]

RAdd(a, b) == Norm(a.n * b.d + b.n * a.d, a.d * b.d)
RSub(a, b) == Norm(a.n * b.d - b.n * a.d, a.d * b.d)
RMul(a, b) == Norm(a.n * b.n, a.d * b.d)
RDiv(a, b) == Norm(a.n * b.d, a.d * b.n)

\* diff: current - prev, None when either is None
diff(current, prev) ==
    IF IsNone(current) \/ IsNone(prev) THEN RatNone ELSE RSub(current, prev)

\* pct_change with the bug of dividing by the current value
pct_change_OfCurrent(current, prev) ==
    IF IsNone(current) \/ IsNone(prev) \/ current.n = 0
    THEN RatNone
    ELSE RMul(RDiv(RSub(current, prev), current), Rat(100))

\* pct_change: (current - prev) / prev * 100, None when current is None or prev in (None, 0)
pct_change(current, prev) ==
    IF IsNone(current) \/ IsNone(prev) \/ prev.n = 0
    THEN RatNone
    ELSE RMul(RDiv(RSub(current, prev), prev), Rat(100))

----------------------------------------------------------------------------
(* Dicts *)

EmptyMap == [k \in {} |-> 0]

\* d[k] = v
MapSet(d, k, v) == [x \in DOMAIN d \cup {k} |-> IF x = k THEN v ELSE d[x]]

Range(s) == {s[i] : i \in DOMAIN s}

----------------------------------------------------------------------------
(* ScrapeState and the checkpoint *)

\* ScrapeState(): the dataclass defaults
EmptyState ==
    [ last_news_id       |-> NoneInt,
      last_prices        |-> EmptyMap,
      last_prices_keys   |-> <<>>,
      first_prices       |-> EmptyMap,
      first_prices_keys  |-> <<>>,
      last_case          |-> <<>>,
      last_tick_ts       |-> NoneInt,
      last_period_ts     |-> NoneInt,
      last_tenders       |-> EmptyMap,
      last_leases        |-> EmptyMap,
      disabled_endpoints |-> {} ]

\* the endpoint names in the order sorted() gives them
EndpointOrder == <<"leases", "tenders">>

\* SortedEndpoints with the bug of leaving "leases" out
SortedEndpoints_WithoutLeases(S) ==
    SelectSeq(EndpointOrder, LAMBDA e : e \in S /\ e # "leases")

\* sorted(self.disabled_endpoints)
SortedEndpoints(S) == SelectSeq(EndpointOrder, LAMBDA e : e \in S)

\* the member name json.dumps writes for a dict key: the key when it is a string,
\* the decimal text of a key that is a number
JsonKey(k) ==
    CASE k = "#7" -> "7"
      [] OTHER    -> k

\* json.dumps of a dict read back by json.loads: each key under its member name.
\* keys holds the keys of d in the order the dict holds them, the order of insertion,
\* which is the order json.dumps writes the members in; of two members with one name
\* json.loads keeps the value of the one written last
JsonDict(d, keys) ==
    [m \in {JsonKey(k) : k \in DOMAIN d} |->
        LET at   == {i \in DOMAIN keys : JsonKey(keys[i]) = m}
            last == CHOOSE i \in at : \A j \in at : j <= i
        IN  d[keys[last]]]

\* the names s holds, each at its first position
RECURSIVE FirstOccurrences(_)
FirstOccurrences(s) ==
    IF s = <<>> THEN <<>>
    ELSE LET front == FirstOccurrences(SubSeq(s, 1, Len(s) - 1))
         IN  IF s[Len(s)] \in Range(front) THEN front ELSE Append(front, s[Len(s)])

\* the keys of the dict json.loads builds from the members json.dumps wrote for keys:
\* a member name that is written twice keeps the position of its first member
JsonKeys(keys) == FirstOccurrences([i \in DOMAIN keys |-> JsonKey(keys[i])])

\* save with the bug of not writing last_news_id
save_WithoutNewsId(st) ==
    [ last_news_id       |-> NoneInt,
      last_prices        |-> JsonDict(st.last_prices, st.last_prices_keys),
      last_prices_keys   |-> JsonKeys(st.last_prices_keys),
      first_prices       |-> JsonDict(st.first_prices, st.first_prices_keys),
      first_prices_keys  |-> JsonKeys(st.first_prices_keys),
      last_case          |-> st.last_case,
      last_tick_ts       |-> st.last_tick_ts,
      last_period_ts     |-> st.last_period_ts,
      last_tenders       |-> st.last_tenders,
      last_leases        |-> st.last_leases,
      disabled_endpoints |-> SortedEndpoints(st.disabled_endpoints) ]

\* ScrapeState.save: the JSON document written to state.json
save(st) ==
    [ last_news_id       |-> st.last_news_id,
      last_prices        |-> JsonDict(st.last_prices, st.last_prices_keys),
      last_prices_keys   |-> JsonKeys(st.last_prices_keys),
      first_prices       |-> JsonDict(st.first_prices, st.first_prices_keys),
      first_prices_keys  |-> JsonKeys(st.first_prices_keys),
      last_case          |-> st.last_case,
      last_tick_ts       |-> st.last_tick_ts,
      last_period_ts     |-> st.last_period_ts,
      last_tenders       |-> st.last_tenders,
      last_leases        |-> st.last_leases,
      disabled_endpoints |-> SortedEndpoints(st.disabled_endpoints) ]

\* load with the bug of not reading last_period_ts
load_WithoutPeriodAnchor(file) ==
    IF file = <<>>
    THEN EmptyState
    ELSE LET raw == file[1]
         IN  [ last_news_id       |-> raw.last_news_id,
               last_prices        |-> raw.last_prices,
               last_prices_keys   |-> raw.last_prices_keys,
               first_prices       |-> raw.first_prices,
               first_prices_keys  |-> raw.first_prices_keys,
               last_case          |-> raw.last_case,
               last_tick_ts       |-> raw.last_tick_ts,
               last_period_ts     |-> NoneInt,
               last_tenders       |-> raw.last_tenders,
               last_leases        |-> raw.last_leases,
               disabled_endpoints |-> Range(raw.disabled_endpoints) ]

\* ScrapeState.load: the state built from state.json, the defaults when it is absent
load(file) ==
    IF file = <<>>
    THEN EmptyState
    ELSE LET raw == file[1]
         IN  [ last_news_id       |-> raw.last_news_id,
               last_prices        |-> raw.last_prices,
               last_prices_keys   |-> raw.last_prices_keys,
               first_prices       |-> raw.first_prices,
               first_prices_keys  |-> raw.first_prices_keys,
               last_case          |-> raw.last_case,
               last_tick_ts       |-> raw.last_tick_ts,
               last_period_ts     |-> raw.last_period_ts,
               last_tenders       |-> raw.last_tenders,
               last_leases        |-> raw.last_leases,
               disabled_endpoints |-> Range(raw.disabled_endpoints) ]

\* state.json after path.write_text was interrupted: the file was truncated and holds
\* at most a prefix of the JSON text
CutFile == <<"{", "">>

\* json.loads of the file raises JSONDecodeError
IsCut(file) == Len(file) = 2

----------------------------------------------------------------------------
(* Retry controller *)

\* a JSON / header value read as a wait duration: absent, a number or a string
WNone == [t |-> "none", r |-> RatNone, s |-> ""]
WNum(r) == [t |-> "num", r |-> r, s |-> ""]
WStr(s) == [t |-> "str", r |-> RatNone, s |-> s]

\* float(s) of a string; RatNone stands for ValueError
ParseFloat(s) ==
    CASE s = "2"    -> Rat(2)
      [] s = "1"    -> Rat(1)
      [] s = "0"    -> Rat(0)
      [] s = "-1"   -> Rat(-1)
      [] OTHER      -> RatNone

\* float(wait); RatNone stands for TypeError / ValueError
ToFloat(w) ==
    CASE w.t = "num" -> w.r
      [] w.t = "str" -> ParseFloat(w.s)
      [] OTHER       -> RatNone

\* the 0.5 of the except branch
RetryFallback == [n |-> 1, d |-> 2]

\* extract_retry_after with the bug of answering the fallback for a negative value
extract_retry_after_NegativeIsFallback(rsp) ==
    LET wait == IF rsp.wait.t = "none" THEN rsp.retry_after ELSE rsp.wait
        f    == ToFloat(wait)
    IN  IF IsNone(f) \/ f.n < 0 THEN RetryFallback ELSE f

\* extract_retry_after(payload, headers): rsp.wait is payload.get("wait") (WNone when the
\* payload is no dict or has no such member), rsp.retry_after is headers.get("Retry-After")
extract_retry_after(rsp) ==
    LET wait == IF rsp.wait.t = "none" THEN rsp.retry_after ELSE rsp.wait
        f    == ToFloat(wait)
    IN  IF IsNone(f) THEN RetryFallback
        ELSE IF f.n < 0 THEN Rat(0) ELSE f

\* what request_json returns: status, payload (body, and its "wait" member), headers
Response(status, body, wait, retry_after) ==
    [status |-> status, body |-> body, wait |-> wait, retry_after |-> retry_after]

NoBody == [kind |-> "none"]
NoResponse == Response(NoneInt, NoBody, WNone, WNone)

\* a request_json_with_retry(url, headers, retries) call before its first iteration;
\* resps is what the server answers to its successive request_json calls, attempt
\* counts the request_json calls made, sleeps lists the time.sleep calls made, result
\* is the locals (status, payload, resp_headers)
RetryStart(resps, retries) ==
    [ retries |-> retries, resps |-> resps, attempt |-> 0, sleeps |-> <<>>,
      done |-> FALSE, result |-> NoResponse ]

\* RetryIter with the bug of retrying a 500 as well
RetryIter_RetriesOn500(r) ==
    LET rsp == r.resps[r.attempt + 1]
    IN  IF rsp.status # 429 /\ rsp.status # 500
        THEN [r EXCEPT !.attempt = @ + 1, !.done = TRUE, !.result = rsp]
        ELSE [r EXCEPT !.attempt = @ + 1,
                       !.sleeps  = Append(@, extract_retry_after(rsp)),
                       !.done    = (r.attempt + 1 >= r.retries + 1),
                       !.result  = rsp]

\* one iteration of the for loop of request_json_with_retry: request_json, return on
\* a status other than 429, else sleep; after iteration number retries + 1 the loop
\* ends and the function returns the last response
RetryIter(r) ==
    LET rsp == r.resps[r.attempt + 1]
    IN  IF rsp.status # 429
        THEN [r EXCEPT !.attempt = @ + 1, !.done = TRUE, !.result = rsp]
        ELSE [r EXCEPT !.attempt = @ + 1,
                       !.sleeps  = Append(@, extract_retry_after(rsp)),
                       !.done    = (r.attempt + 1 >= r.retries + 1),
                       !.result  = rsp]

RECURSIVE RetryRun(_)
RetryRun(r) == IF r.done THEN r ELSE RetryRun(RetryIter(r))

\* request_json_with_retry(url, headers, retries) run to its return: the finished
\* loop state, whose .result is the returned (status, payload, headers)
request_json_with_retry(resps, retries) == RetryRun(RetryStart(resps, retries))

\* ensure_ok raises RuntimeError
Fatal(status) == status = 401 \/ status = 0

----------------------------------------------------------------------------
(* Case event detector *)

\* CaseStart with the bug of leaving the period anchor alone
CaseStart_KeepsPeriodAnchor(st, case, now) ==
    [ events |-> << [ts |-> now, event |-> "case_start", case |-> case] >>,
      state  |-> [st EXCEPT !.last_tick_ts = now, !.last_case = <<case>>] ]

\* the branch `if state.last_case is None` of detect_case_events
CaseStart(st, case, now) ==
    [ events |-> << [ts |-> now, event |-> "case_start", case |-> case] >>,
      state  |-> [st EXCEPT !.last_tick_ts = now,
                            !.last_period_ts = now,
                            !.last_case = <<case>>] ]

\* the local delta of the period branch: now_ts - state.last_period_ts, None when
\* the anchor is None
PeriodDelta(st, now) ==
    IF st.last_period_ts # NoneInt THEN now - st.last_period_ts ELSE NoneDelta

\* TickDelta with the bug of measuring from the period anchor
TickDelta_FromPeriodAnchor(st, now) ==
    IF st.last_period_ts # NoneInt THEN now - st.last_period_ts ELSE NoneDelta

\* the local delta of the tick branch: now_ts - state.last_tick_ts, None when the
\* anchor is None
TickDelta(st, now) ==
    IF st.last_tick_ts # NoneInt THEN now - st.last_tick_ts ELSE NoneDelta

\* StatusChange with the bug of checking the status only when the name is unchanged
StatusChange_UnlessNameChanged(prev, case, now) ==
    IF case.name = prev.name /\ case.status # prev.status
    THEN << [ts |-> now, event |-> "status_change",
             prev |-> prev.status, current |-> case.status] >>
    ELSE <<>>

\* the branch `if case.get("status") != prev.get("status")` of detect_case_events
StatusChange(prev, case, now) ==
    IF case.status # prev.status
    THEN << [ts |-> now, event |-> "status_change",
             prev |-> prev.status, current |-> case.status] >>
    ELSE <<>>

\* PeriodAnchorAfter with the bug of moving the anchor on a name change as well
PeriodAnchorAfter_MovesOnName(st, prev, case, now) ==
    IF case.period # prev.period \/ case.name # prev.name THEN now ELSE st.last_period_ts

\* state.last_period_ts after the period branch: now_ts when the period differs
PeriodAnchorAfter(st, prev, case, now) ==
    IF case.period # prev.period THEN now ELSE st.last_period_ts

\* detect_case_events(state, case, now_ts, now_str): the events and the mutated state
detect_case_events(st, case, now) ==
    IF st.last_case = <<>>
    THEN CaseStart(st, case, now)
    ELSE
    LET prev == st.last_case[1]
        e1 == IF case.name # prev.name
              THEN << [ts |-> now, event |-> "case_change",
                       prev |-> prev.name, current |-> case.name] >>
              ELSE <<>>
        e2 == StatusChange(prev, case, now)
        pdelta == PeriodDelta(st, now)
        e3 == IF case.period # prev.period
              THEN << [ts |-> now, event |-> "period_change",
                       prev |-> prev.period, current |-> case.period,
                       seconds_since_last_period |-> pdelta] >>
              ELSE <<>>
        tdelta == TickDelta(st, now)
        e4 == IF case.tick # prev.tick
              THEN << [ts |-> now, event |-> "tick_change",
                       prev |-> prev.tick, current |-> case.tick,
                       seconds_since_last_tick |-> tdelta] >>
              ELSE <<>>
    IN  [ events |-> e1 \o e2 \o e3 \o e4,
          state  |-> [st EXCEPT
                        !.last_period_ts = PeriodAnchorAfter(st, prev, case, now),
                        !.last_tick_ts   = IF case.tick # prev.tick THEN now ELSE @,
                        !.last_case      = <<case>>] ]

----------------------------------------------------------------------------
(* Enrichment engine *)

\* Truthy with the bug of taking the empty string for a ticker
Truthy_EmptyIsATicker(ticker) == ticker # NoneStr

\* `if ticker`: sec.get("ticker") is neither None nor the empty string
Truthy(ticker) == ticker # NoneStr /\ ticker # ""

\* Mid with the bug of answering the one side that is present
Mid_FallsBackToOneSide(sec) ==
    IF ~IsNone(sec.bid) /\ ~IsNone(sec.ask)
    THEN RDiv(RAdd(sec.bid, sec.ask), Rat(2))
    ELSE IF ~IsNone(sec.bid) THEN sec.bid ELSE sec.ask

\* the mid of one security: (bid + ask) / 2 when both are present
Mid(sec) ==
    IF ~IsNone(sec.bid) /\ ~IsNone(sec.ask)
    THEN RDiv(RAdd(sec.bid, sec.ask), Rat(2))
    ELSE RatNone

\* FirstPricesAfter with the bug of overwriting the entry of a known ticker
FirstPricesAfter_Overwrites(first_prices, sec) ==
    IF Truthy(sec.ticker) /\ ~IsNone(sec.last)
    THEN MapSet(first_prices, sec.ticker, sec.last)
    ELSE first_prices

\* state.first_prices after the write-once update for one security
FirstPricesAfter(first_prices, sec) ==
    IF Truthy(sec.ticker) /\ sec.ticker \notin DOMAIN first_prices /\ ~IsNone(sec.last)
    THEN MapSet(first_prices, sec.ticker, sec.last)
    ELSE first_prices

\* the keys of a dict after d[k] = v: a new key goes to the end, a key the dict holds
\* keeps its place
KeysAfter(keys, k) == IF k \in Range(keys) THEN keys ELSE Append(keys, k)

\* the body of the for loop of enrich_securities, on the accumulator
\* [enriched, state]
EnrichOne(acc, sec) ==
    LET st        == acc.state
        ticker    == sec.ticker
        mid       == Mid(sec)
        known     == Truthy(ticker) /\ ticker \in DOMAIN st.last_prices
        prev_last == IF known THEN st.last_prices[ticker].last ELSE RatNone
        prev_mid  == IF known THEN st.last_prices[ticker].mid ELSE RatNone
        firsts    == FirstPricesAfter(st.first_prices, sec)
        first     == IF Truthy(ticker) /\ ticker \in DOMAIN firsts
                     THEN firsts[ticker] ELSE RatNone
        lasts     == IF Truthy(ticker)
                     THEN MapSet(st.last_prices, ticker, [last |-> sec.last, mid |-> mid])
                     ELSE st.last_prices
        rec       == [ ticker |-> ticker, last |-> sec.last,
                       bid |-> sec.bid, ask |-> sec.ask,
                       mid              |-> mid,
                       delta_last       |-> diff(sec.last, prev_last),
                       pct_last         |-> pct_change(sec.last, prev_last),
                       delta_mid        |-> diff(mid, prev_mid),
                       pct_mid          |-> pct_change(mid, prev_mid),
                       delta_from_start |-> diff(sec.last, first),
                       pct_from_start   |-> pct_change(sec.last, first) ]
    IN  [ enriched |-> Append(acc.enriched, rec),
          state    |-> [st EXCEPT
                          !.first_prices = firsts,
                          !.first_prices_keys =
                              IF DOMAIN firsts = DOMAIN st.first_prices
                              THEN @ ELSE KeysAfter(@, ticker),
                          !.last_prices = lasts,
                          !.last_prices_keys =
                              IF Truthy(ticker) THEN KeysAfter(@, ticker) ELSE @] ]

RECURSIVE EnrichFrom(_, _, _)
EnrichFrom(acc, securities, i) ==
    IF i > Len(securities) THEN acc
    ELSE EnrichFrom(EnrichOne(acc, securities[i]), securities, i + 1)

\* enrich_securities(securities, state): the enriched list and the mutated state
enrich_securities(securities, st) ==
    EnrichFrom([enriched |-> <<>>, state |-> st], securities, 1)

\* tickers = [sec.get("ticker") for sec in securities_payload if sec.get("ticker")]
TickersOf(securities) ==
    LET kept == SelectSeq(securities, LAMBDA sec : Truthy(sec.ticker))
    IN  [i \in 1..Len(kept) |-> kept[i].ticker]

\* s[:n]: the first n elements, or all but the last -n when n is negative
SliceTo(s, n) ==
    LET stop == IF n >= 0 THEN n ELSE Len(s) + n
    IN  SubSeq(s, 1, IF stop < 0 THEN 0 ELSE IF stop > Len(s) THEN Len(s) ELSE stop)

\* a piece of the --book-tickers option between two commas: its text without the
\* whitespace around it, and the number of whitespace characters around it
Piece(text, pad) == [text |-> text, pad |-> pad]

\* t.strip()
Strip(piece) == piece.text

\* the truth value of the option string: false for None and for the empty string,
\* which splits into one piece with no character
OptionGiven(pieces) == pieces # <<>> /\ pieces # << Piece("", 0) >>

\* select_book_tickers(all_tickers, args): args.book_tickers is the option as the
\* pieces split(",") gives (<<>> for None), args.book_max is <<>> for None and <<n>>
\* for the integer n
select_book_tickers(all_tickers, a) ==
    LET kept    == SelectSeq(a.book_tickers, LAMBDA t : Strip(t) # "")
        tickers == IF OptionGiven(a.book_tickers)
                   THEN [i \in 1..Len(kept) |-> Strip(kept[i])]
                   ELSE all_tickers
    IN  IF a.book_max # <<>> /\ Len(tickers) > a.book_max[1]
        THEN SliceTo(tickers, a.book_max[1])
        ELSE tickers

----------------------------------------------------------------------------
(* Dedup recorder *)

JNull == "null"

\* the field names in use, in the order sort_keys=True puts them
FieldOrder == <<"id", "price", "tender_id">>

HasField(item, f) == \E i \in DOMAIN item : item[i][1] = f

\* item.get(f): JNull when the member is absent (or is null)
Get(item, f) ==
    IF HasField(item, f)
    THEN item[CHOOSE i \in DOMAIN item : item[i][1] = f][2]
    ELSE JNull

\* fingerprint with the bug of writing the members in insertion order (no sort_keys)
fingerprint_InInsertionOrder(item) == item

\* fingerprint: json.dumps(payload, sort_keys=True, separators=(",", ":")), as the
\* sequence of its members in key order
fingerprint(item) ==
    LET present == SelectSeq(FieldOrder, LAMBDA f : HasField(item, f))
    IN  [i \in 1..Len(present) |-> <<present[i], Get(item, present[i])>>]

\* str(raw_id) of a JSON value given by its literal text
PyStr(v) ==
    CASE v = "\"1\"" -> "1"
      [] v = "\"2\"" -> "2"
      [] OTHER       -> v

\* {"ts": now_str, label: item}
LabelledRecord(now, label, item) == ("ts" :> now) @@ (label :> item)

\* RecordOne with the bug of recording an item without id under str(None)
RecordOne_RecordsMissingId(acc, item, now, id_key, label) ==
    LET raw_id == Get(item, id_key)
        key    == IF raw_id = JNull THEN "None" ELSE PyStr(raw_id)
        fp     == fingerprint(item)
    IN  IF key \in DOMAIN acc.map /\ acc.map[key] = fp THEN acc
        ELSE [ map   |-> MapSet(acc.map, key, fp),
               out   |-> Append(acc.out, LabelledRecord(now, label, item)),
               count |-> acc.count + 1 ]

\* RecordOne with the bug of not storing the fingerprint it wrote
RecordOne_ForgetsFingerprint(acc, item, now, id_key, label) ==
    LET raw_id == Get(item, id_key)
        key    == PyStr(raw_id)
        fp     == fingerprint(item)
    IN  IF raw_id = JNull THEN acc
        ELSE IF key \in DOMAIN acc.map /\ acc.map[key] = fp THEN acc
        ELSE [ map   |-> acc.map,
               out   |-> Append(acc.out, LabelledRecord(now, label, item)),
               count |-> acc.count + 1 ]

\* RecordOne with the bug of recording a key on first sight only
RecordOne_OnlyFirstSight(acc, item, now, id_key, label) ==
    LET raw_id == Get(item, id_key)
        key    == PyStr(raw_id)
        fp     == fingerprint(item)
    IN  IF raw_id = JNull THEN acc
        ELSE IF key \in DOMAIN acc.map THEN acc
        ELSE [ map   |-> MapSet(acc.map, key, fp),
               out   |-> Append(acc.out, LabelledRecord(now, label, item)),
               count |-> acc.count + 1 ]

\* the body of the for loop of record_items, on the accumulator [map, out, count]
RecordOne(acc, item, now, id_key, label) ==
    LET raw_id == Get(item, id_key)
        key    == PyStr(raw_id)
        fp     == fingerprint(item)
    IN  IF raw_id = JNull THEN acc
        ELSE IF key \in DOMAIN acc.map /\ acc.map[key] = fp THEN acc
        ELSE [ map   |-> MapSet(acc.map, key, fp),
               out   |-> Append(acc.out, LabelledRecord(now, label, item)),
               count |-> acc.count + 1 ]

RECURSIVE RecordFrom(_, _, _, _, _, _)
RecordFrom(acc, items, i, now, id_key, label) ==
    IF i > Len(items) THEN acc
    ELSE RecordFrom(RecordOne(acc, items[i], now, id_key, label),
                    items, i + 1, now, id_key, label)

\* record_items(items, state_map, output_path, now_str, id_key, label): the mutated
\* map, the records appended to output_path and the returned count
record_items(items, state_map, now, id_key, label) ==
    RecordFrom([map |-> state_map, out |-> <<>>, count |-> 0], items, 1, now, id_key, label)

----------------------------------------------------------------------------
(* News *)

\* the sort key x.get("news_id", 0), a missing news_id being NoneInt
NewsKey(item) == IF item.news_id = NoneInt THEN 0 ELSE item.news_id

\* one insertion of the stable sort sorted(news_payload, key=...)
InsertByKey(sorted, x) ==
    LET after == {i \in DOMAIN sorted : NewsKey(sorted[i]) > NewsKey(x)}
        pos   == IF after = {} THEN Len(sorted) + 1
                 ELSE CHOOSE i \in after : \A j \in after : i <= j
    IN  SubSeq(sorted, 1, pos - 1) \o <<x>> \o SubSeq(sorted, pos, Len(sorted))

RECURSIVE SortNewsFrom(_, _, _)
SortNewsFrom(sorted, items, i) ==
    IF i > Len(items) THEN sorted
    ELSE SortNewsFrom(InsertByKey(sorted, items[i]), items, i + 1)

SortNews(items) == SortNewsFrom(<<>>, items, 1)

Max(a, b) == IF a >= b THEN a ELSE b

\* NewsIdAfter with the bug of taking the id of the item whatever the cursor holds
NewsIdAfter_TakesLatest(last_news_id, item) ==
    IF item.news_id # NoneInt THEN item.news_id ELSE last_news_id

\* state.last_news_id after one item: max(state.last_news_id or 0, int(news_id))
NewsIdAfter(last_news_id, item) ==
    IF item.news_id # NoneInt
    THEN Max(IF last_news_id = NoneInt THEN 0 ELSE last_news_id, item.news_id)
    ELSE last_news_id

RECURSIVE NewsIdFrom(_, _, _)
NewsIdFrom(last_news_id, items, i) ==
    IF i > Len(items) THEN last_news_id
    ELSE NewsIdFrom(NewsIdAfter(last_news_id, items[i]), items, i + 1)

\* the news loop of poll_once: the records written and the new last_news_id
record_news(items, last_news_id, now) ==
    LET sorted == SortNews(items)
    IN  [ last_news_id |-> NewsIdFrom(last_news_id, sorted, 1),
          out          |-> [i \in 1..Len(sorted) |-> [ts |-> now, news |-> sorted[i]]] ]

----------------------------------------------------------------------------
(* Responses of the server *)

\* payloads: a JSON list, the case object, or anything else (an error object,
\* {"raw": text} for a body that is no JSON)
ListBody(items) == [kind |-> "list", items |-> items]
CaseBody(case) == [kind |-> "dict", case |-> case]
OtherBody == [kind |-> "other"]

IsList(body) == body.kind = "list"

\* the responses whose status is not 429: 200 with each body, each other status
\* with an error object
Finals(statuses, bodies) ==
    {Response(200, b, WNone, WNone) : b \in bodies}
        \cup {Response(s, OtherBody, WNone, WNone) : s \in statuses \ {200, 429}}

\* what the successive request_json calls of one request_json_with_retry call can
\* return: 429 k times and then a final response, or 429 on every one of the
\* retries + 1 attempts
Streams(finals, limited, retries) ==
    {[i \in 1..(k + 1) |-> IF i <= k THEN l ELSE f] :
        k \in 0..retries, l \in limited, f \in finals}
        \cup {[i \in 1..(retries + 1) |-> l] : l \in limited}

\* the (status, payload) poll_once gets from request_json_with_retry
Fetch(stream) == request_json_with_retry(stream, DefaultRetries).result

----------------------------------------------------------------------------
(* The process: main and poll_once *)

EmptyOut ==
    [ case_events |-> <<>>, snapshots |-> <<>>, books |-> <<>>,
      news |-> <<>>, tenders |-> <<>>, leases |-> <<>> ]

NoFetch == [ep |-> "none", status |-> NoneInt, body |-> NoBody]

Received(ep, r) == [ep |-> ep, status |-> r.status, body |-> r.body]
Issued(ep, r) == [ep |-> ep, status |-> r.status]

\* main after poll_once returns: break on --once, else time.sleep(interval)
AfterPoll == IF args.once THEN "done" ELSE "sleep"

\* the step of poll_once after the book loop
AfterBooks == "news"

\* AbortCycle with the bug of writing the checkpoint on the way out
AbortCycle_Persists ==
    /\ pc' = AfterPoll
    /\ checkpoint' = <<save(state)>>

\* `return` after "Case fetch failed" / "Securities fetch failed": poll_once ends
\* without reaching state.save
AbortCycle ==
    /\ pc' = AfterPoll
    /\ checkpoint' = checkpoint

\* Raise with the bug of catching the RuntimeError in the run loop
Raise_ReturnsToLoop ==
    /\ pc' = AfterPoll
    /\ checkpoint' = checkpoint

\* ensure_ok raises: the RuntimeError leaves poll_once and main
Raise ==
    /\ pc' = "crashed"
    /\ checkpoint' = checkpoint

\* the number of case_start events among the events written
StartsIn(events) == Cardinality({i \in DOMAIN events : events[i].event = "case_start"})

\* clock_slip once the clock has read now after before
SlipAfter(slip, before, now) ==
    IF now < before THEN [slip EXCEPT !.back = @ + 1]
    ELSE IF now = before THEN [slip EXCEPT !.same = @ + 1]
    ELSE slip

\* poll_once up to the case events: read the clock (time.time() as it comes: above,
\* at or below the reading before), fetch /v1/case, ensure_ok, return on a status
\* other than 200, else detect_case_events and write the events
PollCaseWith(now, r) ==
    /\ pc = "case"
    /\ now_ts' = now
    /\ clock_slip' = SlipAfter(clock_slip, now_ts, now)
    /\ tender_payload' = NoFetch
    /\ reqs' = <<Issued("case", r)>>
    /\ resp' = Received("case", r)
    /\ book_queue' = <<>>
    /\ IF Fatal(r.status)
       THEN /\ Raise
            /\ out' = EmptyOut
            /\ state' = state
       ELSE IF r.status # 200
       THEN /\ AbortCycle
            /\ out' = EmptyOut
            /\ state' = state
       ELSE LET d == detect_case_events(state, r.body.case, now)
            IN  /\ pc' = "securities"
                /\ checkpoint' = checkpoint
                /\ out' = [EmptyOut EXCEPT !.case_events = d.events]
                /\ state' = d.state
    /\ case_starts' = case_starts + StartsIn(out'.case_events)
    /\ UNCHANGED <<args, notfound, first_seen, last_seen, rt>>

\* first_seen once the run holds first_prices: a ticker keeps the value it was first
\* given, a ticker set for the first time gets its value
FirstSeenAfter(seen, first_prices) ==
    [t \in DOMAIN seen \cup DOMAIN first_prices |->
        IF t \in DOMAIN seen THEN seen[t] ELSE first_prices[t]]

\* last_seen once the poll has observed the securities: each ticker of the list gets
\* the {last, mid} of its last record in the list, the other tickers keep theirs
LastSeenAfter(seen, securities) ==
    LET at(t) == {i \in DOMAIN securities : securities[i].ticker = t}
        listed == {securities[i].ticker : i \in {j \in DOMAIN securities :
                                                   Truthy(securities[j].ticker)}}
    IN  [t \in DOMAIN seen \cup listed |->
            IF t \in listed
            THEN LET i == CHOOSE i \in at(t) : \A k \in at(t) : k <= i
                 IN  [last |-> securities[i].last, mid |-> Mid(securities[i])]
            ELSE seen[t]]

\* poll_once: fetch /v1/securities, ensure_ok, return on a status other than 200 or
\* a payload that is no list, else enrich, write the snapshot and select the book tickers
PollSecuritiesWith(r) ==
    /\ pc = "securities"
    /\ reqs' = Append(reqs, Issued("securities", r))
    /\ resp' = Received("securities", r)
    /\ IF Fatal(r.status)
       THEN /\ Raise
            /\ UNCHANGED <<state, out, book_queue, first_seen, last_seen>>
       ELSE IF r.status # 200 \/ ~IsList(r.body)
       THEN /\ AbortCycle
            /\ UNCHANGED <<state, out, book_queue, first_seen, last_seen>>
       ELSE LET e        == enrich_securities(r.body.items, state)
                tickers  == TickersOf(r.body.items)
                snapshot == [ ts |-> now_ts, case |-> state.last_case[1],
                              tickers |-> tickers, securities |-> e.enriched ]
                queue    == IF args.skip_books THEN <<>>
                            ELSE select_book_tickers(tickers, args)
            IN  /\ state' = e.state
                /\ first_seen' = FirstSeenAfter(first_seen, e.state.first_prices)
                /\ last_seen' = LastSeenAfter(last_seen, r.body.items)
                /\ out' = [out EXCEPT !.snapshots = Append(@, snapshot)]
                /\ book_queue' = queue
                /\ pc' = IF queue = <<>> THEN AfterBooks ELSE "books"
                /\ checkpoint' = checkpoint
    /\ UNCHANGED <<args, now_ts, notfound, case_starts, clock_slip, tender_payload, rt>>

\* PollBookWith with the bug of returning from poll_once on a 429
PollBookWith_AbortsOn429(r) ==
    /\ pc = "books"
    /\ book_queue # <<>>
    /\ LET ticker == Head(book_queue)
       IN  /\ reqs' = Append(reqs, Issued("book", r))
           /\ resp' = Received("book", r)
           /\ IF Fatal(r.status)
              THEN /\ pc' = "crashed"
                   /\ UNCHANGED <<out, book_queue>>
              ELSE IF r.status = 429
              THEN /\ pc' = AfterPoll
                   /\ UNCHANGED <<out, book_queue>>
              ELSE /\ out' = IF r.status = 200
                             THEN [out EXCEPT !.books = Append(@,
                                     [ts |-> now_ts, ticker |-> ticker, book |-> r.body])]
                             ELSE out
                   /\ book_queue' = Tail(book_queue)
                   /\ pc' = IF Tail(book_queue) = <<>> THEN AfterBooks ELSE "books"
    /\ UNCHANGED <<state, checkpoint, args, now_ts, notfound, first_seen, case_starts, last_seen, clock_slip, tender_payload, rt>>

\* one iteration of the book loop: fetch the book of the next ticker, continue on
\* 429, ensure_ok, write the book on 200
PollBookWith(r) ==
    /\ pc = "books"
    /\ book_queue # <<>>
    /\ LET ticker == Head(book_queue)
       IN  /\ reqs' = Append(reqs, Issued("book", r))
           /\ resp' = Received("book", r)
           /\ IF r.status # 429 /\ Fatal(r.status)
              THEN /\ pc' = "crashed"
                   /\ UNCHANGED <<out, book_queue>>
              ELSE /\ out' = IF r.status = 200
                             THEN [out EXCEPT !.books = Append(@,
                                     [ts |-> now_ts, ticker |-> ticker, book |-> r.body])]
                             ELSE out
                   /\ book_queue' = Tail(book_queue)
                   /\ pc' = IF Tail(book_queue) = <<>> THEN AfterBooks ELSE "books"
    /\ UNCHANGED <<state, checkpoint, args, now_ts, notfound, first_seen, case_starts, last_seen, clock_slip, tender_payload, rt>>

\* poll_once with --skip-news: no news request
SkipNews ==
    /\ pc = "news"
    /\ args.skip_news
    /\ pc' = "tenders"
    /\ UNCHANGED <<state, checkpoint, out, args, now_ts, resp, reqs, book_queue, notfound, first_seen, case_starts, last_seen, clock_slip, tender_payload, rt>>

\* PollNewsWith with the bug of returning from poll_once on a failed news fetch
PollNewsWith_AbortsOnFailure(r) ==
    /\ pc = "news"
    /\ ~args.skip_news
    /\ reqs' = Append(reqs, Issued("news", r))
    /\ resp' = Received("news", r)
    /\ IF Fatal(r.status)
       THEN /\ pc' = "crashed"
            /\ UNCHANGED <<state, out>>
       ELSE IF r.status # 200 \/ ~IsList(r.body)
       THEN /\ pc' = AfterPoll
            /\ UNCHANGED <<state, out>>
       ELSE LET n == record_news(r.body.items, state.last_news_id, now_ts)
            IN  /\ pc' = "tenders"
                /\ state' = [state EXCEPT !.last_news_id = n.last_news_id]
                /\ out' = [out EXCEPT !.news = @ \o n.out]
    /\ UNCHANGED <<checkpoint, args, now_ts, book_queue, notfound, first_seen, case_starts, last_seen, clock_slip, tender_payload, rt>>

\* poll_once: fetch /v1/news, ensure_ok, on 200 with a list write every item in
\* news_id order and advance last_news_id
PollNewsWith(r) ==
    /\ pc = "news"
    /\ ~args.skip_news
    /\ reqs' = Append(reqs, Issued("news", r))
    /\ resp' = Received("news", r)
    /\ IF Fatal(r.status)
       THEN /\ pc' = "crashed"
            /\ UNCHANGED <<state, out>>
       ELSE /\ pc' = "tenders"
            /\ IF r.status = 200 /\ IsList(r.body)
               THEN LET n == record_news(r.body.items, state.last_news_id, now_ts)
                    IN  /\ state' = [state EXCEPT !.last_news_id = n.last_news_id]
                        /\ out' = [out EXCEPT !.news = @ \o n.out]
               ELSE UNCHANGED <<state, out>>
    /\ UNCHANGED <<checkpoint, args, now_ts, book_queue, notfound, first_seen, case_starts, last_seen, clock_slip, tender_payload, rt>>

\* poll_once with --skip-tenders or with "tenders" disabled: no tenders request
SkipTenders ==
    /\ pc = "tenders"
    /\ args.skip_tenders \/ "tenders" \in state.disabled_endpoints
    /\ pc' = "leases"
    /\ UNCHANGED <<state, checkpoint, out, args, now_ts, resp, reqs, book_queue, notfound, first_seen, case_starts, last_seen, clock_slip, tender_payload, rt>>

\* poll_once: fetch /v1/tenders; disable the endpoint on 404, else ensure_ok and
\* record_items on 200 with a list
PollTendersWith(r) ==
    /\ pc = "tenders"
    /\ ~args.skip_tenders /\ "tenders" \notin state.disabled_endpoints
    /\ reqs' = Append(reqs, Issued("tenders", r))
    /\ resp' = Received("tenders", r)
    /\ tender_payload' = Received("tenders", r)
    /\ notfound' = IF r.status = 404 THEN notfound \cup {"tenders"} ELSE notfound
    /\ IF r.status = 404
       THEN /\ state' = [state EXCEPT !.disabled_endpoints = @ \cup {"tenders"}]
            /\ pc' = "leases"
            /\ out' = out
       ELSE IF Fatal(r.status)
       THEN /\ pc' = "crashed"
            /\ UNCHANGED <<state, out>>
       ELSE /\ pc' = "leases"
            /\ IF r.status = 200 /\ IsList(r.body)
               THEN LET rec == record_items(r.body.items, state.last_tenders,
                                            now_ts, "tender_id", "tender")
                    IN  /\ state' = [state EXCEPT !.last_tenders = rec.map]
                        /\ out' = [out EXCEPT !.tenders = @ \o rec.out]
               ELSE UNCHANGED <<state, out>>
    /\ UNCHANGED <<checkpoint, args, now_ts, book_queue, first_seen, case_starts, last_seen, clock_slip, rt>>

\* poll_once with --skip-leases or with "leases" disabled: no leases request
SkipLeases ==
    /\ pc = "leases"
    /\ args.skip_leases \/ "leases" \in state.disabled_endpoints
    /\ pc' = "save"
    /\ UNCHANGED <<state, checkpoint, out, args, now_ts, resp, reqs, book_queue, notfound, first_seen, case_starts, last_seen, clock_slip, tender_payload, rt>>

\* poll_once: fetch /v1/leases; disable the endpoint on 404, else ensure_ok and
\* record_items on 200 with a list
PollLeasesWith(r) ==
    /\ pc = "leases"
    /\ ~args.skip_leases /\ "leases" \notin state.disabled_endpoints
    /\ reqs' = Append(reqs, Issued("leases", r))
    /\ resp' = Received("leases", r)
    /\ notfound' = IF r.status = 404 THEN notfound \cup {"leases"} ELSE notfound
    /\ IF r.status = 404
       THEN /\ state' = [state EXCEPT !.disabled_endpoints = @ \cup {"leases"}]
            /\ pc' = "save"
            /\ out' = out
       ELSE IF Fatal(r.status)
       THEN /\ pc' = "crashed"
            /\ UNCHANGED <<state, out>>
       ELSE /\ pc' = "save"
            /\ IF r.status = 200 /\ IsList(r.body)
               THEN LET rec == record_items(r.body.items, state.last_leases,
                                            now_ts, "id", "lease")
                    IN  /\ state' = [state EXCEPT !.last_leases = rec.map]
                        /\ out' = [out EXCEPT !.leases = @ \o rec.out]
               ELSE UNCHANGED <<state, out>>
    /\ UNCHANGED <<checkpoint, args, now_ts, book_queue, first_seen, case_starts, last_seen, clock_slip, tender_payload, rt>>

\* the last statement of poll_once: state.save(paths.state); then main's loop
Save ==
    /\ pc = "save"
    /\ checkpoint' = <<save(state)>>
    /\ pc' = AfterPoll
    /\ UNCHANGED <<state, out, args, now_ts, resp, reqs, book_queue, notfound, first_seen, case_starts, last_seen, clock_slip, tender_payload, rt>>

\* Sleep with the bug of resuming the cycle at its news step
Sleep_ResumesAtNews ==
    /\ pc = "sleep"
    /\ pc' = "news"
    /\ UNCHANGED <<state, checkpoint, out, args, now_ts, resp, reqs, book_queue, notfound,
                   first_seen, case_starts, last_seen, clock_slip, tender_payload, rt>>

\* main: time.sleep(args.interval), then the next poll_once
Sleep ==
    /\ pc = "sleep"
    /\ pc' = "case"
    /\ UNCHANGED <<state, checkpoint, out, args, now_ts, resp, reqs, book_queue, notfound, first_seen, case_starts, last_seen, clock_slip, tender_payload, rt>>

\* a new run of main after the previous one ended (--once, RuntimeError) or was
\* stopped between two cycles: state = ScrapeState.load(paths.state)
Restart ==
    /\ pc \in {"sleep", "done", "crashed"}
    /\ ~IsCut(checkpoint)
    /\ state' = load(checkpoint)
    /\ pc' = "case"
    /\ out' = EmptyOut
    /\ resp' = NoFetch
    /\ reqs' = <<>>
    /\ tender_payload' = NoFetch
    /\ book_queue' = <<>>
    /\ UNCHANGED <<checkpoint, args, now_ts, notfound, first_seen, case_starts, last_seen, clock_slip, rt>>

\* the step starts a new run of main after a RuntimeError ended the previous one in
\* the middle of a cycle
RestartAfterFatal == pc = "crashed" /\ pc' = "case"

\* the process is stopped (killed, power loss) inside path.write_text of state.save,
\* after the file was opened for writing and before its text was written out
SaveInterrupted ==
    /\ pc = "save"
    /\ checkpoint' = CutFile
    /\ pc' = "crashed"
    /\ UNCHANGED <<state, out, args, now_ts, resp, reqs, book_queue, notfound, first_seen, case_starts, last_seen, clock_slip, tender_payload, rt>>

\* a new run of main over a state.json that is no JSON document: json.loads raises in
\* ScrapeState.load and main ends before its loop
LoadFails ==
    /\ pc \in {"sleep", "done", "crashed"}
    /\ IsCut(checkpoint)
    /\ pc' = "failed"
    /\ state' = EmptyState
    /\ out' = EmptyOut
    /\ resp' = NoFetch
    /\ reqs' = <<>>
    /\ tender_payload' = NoFetch
    /\ book_queue' = <<>>
    /\ UNCHANGED <<checkpoint, args, now_ts, notfound, first_seen, case_starts, last_seen, clock_slip, rt>>

----------------------------------------------------------------------------
(* Inputs *)

\* a clock that has moved forward between any two readings
NoSlip == [same |-> 0, back |-> 0]

\* how far the clock has moved between two readings of time.time(): forward, not at
\* all (two polls within one tick of the clock), or back (the wall clock was set back)
ClockSteps == {-2, -1, 0, 1, 2}
\* the readings that can follow the reading t, up to the bound last
ClockAfter(t, last) == {t + d : d \in ClockSteps} \cap 1..last
\* the steps of a clock that moves forward between any two polls
ForwardSteps == {d \in ClockSteps : d > 0}

Case(name, status, period, tick) ==
    [name |-> name, status |-> status, period |-> period, tick |-> tick]

Sec(ticker, last, bid, ask) == [ticker |-> ticker, last |-> last, bid |-> bid, ask |-> ask]

Args(once, skip_books, skip_news, skip_tenders, skip_leases, book_tickers, book_max) ==
    [ once |-> once, skip_books |-> skip_books, skip_news |-> skip_news,
      skip_tenders |-> skip_tenders, skip_leases |-> skip_leases,
      book_tickers |-> book_tickers, book_max |-> book_max ]

\* the defaults of parse_args
DefaultArgs == Args(FALSE, FALSE, FALSE, FALSE, FALSE, <<>>, <<>>)

Statuses == {200, 401, 0, 404, 429, 500}

\* a 429 response with neither a wait member nor a Retry-After header
PlainLimited == Response(429, OtherBody, WNone, WNone)

BookBody == [kind |-> "dict"]

Tender(id, price) == << <<"tender_id", id>>, <<"price", price>> >>
Lease(id, price) == << <<"id", id>>, <<"price", price>> >>

News(id) == [news_id |-> id]

\* the inputs of the orchestration runs: every status on every endpoint, two case
\* snapshots, one securities list of two tickers, one list per other endpoint
MainInputs ==
    [ cases   |-> { Case("A", "ACTIVE", 1, 1), Case("A", "ACTIVE", 1, 2) },
      secs    |-> { ListBody(<< Sec("X", Rat(10), Rat(10), Rat(12)),
                                Sec("Y", Rat(20), RatNone, Rat(21)) >>),
                    OtherBody },
      books   |-> { BookBody },
      news    |-> { ListBody(<< News(1) >>) },
      tenders |-> { ListBody(<< Tender("1", "10") >>) },
      leases  |-> { ListBody(<< Lease("1", "10") >>) },
      status  |-> Statuses,
      limited |-> { PlainLimited },
      clock   |-> MaxClock,
      steps   |-> ForwardSteps,
      args    |-> { DefaultArgs,
                    Args(TRUE, FALSE, TRUE, FALSE, TRUE,
                         << Piece("Y", 0), Piece("", 1), Piece("X", 1) >>, <<1>>),
                    Args(FALSE, TRUE, FALSE, TRUE, FALSE, <<>>, <<>>) } ]

SkipAllArgs == Args(FALSE, TRUE, TRUE, TRUE, TRUE, <<>>, <<>>)

\* the inputs of the case detector runs: every combination of two values of name,
\* status, period and tick, and a case object without any of the four fields
CaseInputs ==
    [ cases   |-> { Case(n, st, p, t) : n \in {"A", "B"}, st \in {"ACTIVE", "PAUSED"},
                                        p \in {1, 2}, t \in {1, 2} }
                    \cup { Case(NoneStr, NoneStr, NoneInt, NoneInt) },
      secs    |-> { ListBody(<< Sec("X", Rat(10), RatNone, RatNone) >>) },
      books   |-> { BookBody },
      news    |-> { ListBody(<<>>) },
      tenders |-> { ListBody(<<>>) },
      leases  |-> { ListBody(<<>>) },
      status  |-> {200},
      limited |-> { PlainLimited },
      clock   |-> MaxClock + 1,
      steps   |-> ForwardSteps,
      args    |-> { SkipAllArgs } ]

TendersAndLeasesArgs == Args(FALSE, TRUE, TRUE, FALSE, FALSE, <<>>, <<>>)

\* tender objects: the id as a number or as a string, absent or null, two prices,
\* the two orders of the members, a second id
TenderItems ==
    { Tender(id, p) : id \in {"1", "\"1\""}, p \in {"10", "11"} }
        \cup { << <<"price", p>>, <<"tender_id", id>> >> :
                  id \in {"1", "\"1\""}, p \in {"10", "11"} }
        \cup { << <<"price", p>> >> : p \in {"10", "11"} }
        \cup { Tender(JNull, "10"), Tender("2", "10") }

\* the lists of at most two of them
TenderLists ==
    { <<>> } \cup { <<a>> : a \in TenderItems }
             \cup { <<a, b>> : a \in TenderItems, b \in TenderItems }

\* the inputs of the dedup recorder runs
DedupInputs ==
    [ cases   |-> { Case("A", "ACTIVE", 1, 1) },
      secs    |-> { ListBody(<< Sec("X", Rat(10), RatNone, RatNone) >>) },
      books   |-> { BookBody },
      news    |-> { ListBody(<<>>) },
      tenders |-> { ListBody(l) : l \in TenderLists },
      leases  |-> { ListBody(<< Lease("1", "10") >>),
                    ListBody(<< Lease("1", "11"), << <<"price", "10">> >> >>) },
      status  |-> {200, 404},
      limited |-> { PlainLimited },
      clock   |-> MaxClock,
      steps   |-> ForwardSteps,
      args    |-> { TendersAndLeasesArgs } ]

\* the inputs of the enrichment runs: the last price of X moves or is missing, bid
\* or ask may be missing, a list may hold X twice, a security may have no ticker
EnrichInputs ==
    [ cases   |-> { Case("A", "ACTIVE", 1, 1) },
      secs    |-> { ListBody(<< Sec("X", l, b, Rat(12)) >>) :
                        l \in {Rat(10), Rat(11), RatNone}, b \in {Rat(10), RatNone} }
                  \cup { ListBody(<< Sec("X", Rat(10), Rat(9), Rat(12)),
                                     Sec("X", Rat(11), Rat(10), Rat(12)) >>),
                         ListBody(<< Sec("", Rat(10), Rat(9), Rat(12)),
                                     Sec("Y", Rat(0), Rat(0), Rat(1)) >>),
                         ListBody(<< Sec(NoneStr, Rat(11), RatNone, RatNone),
                                     Sec("Y", Rat(5), Rat(4), Rat(7)) >>) },
      books   |-> { BookBody },
      news    |-> { ListBody(<<>>) },
      tenders |-> { ListBody(<<>>) },
      leases  |-> { ListBody(<<>>) },
      status  |-> {200, 401},
      limited |-> { PlainLimited },
      clock   |-> MaxClock,
      steps   |-> ForwardSteps,
      args    |-> { SkipAllArgs, DefaultArgs } ]

BooksSkippedArgs == Args(FALSE, TRUE, FALSE, FALSE, FALSE, <<>>, <<>>)

\* the inputs of the list endpoint runs: news lists with ids in and out of order, an
\* item without news_id, and for each of news, tenders and leases a payload that is
\* no list; every status but 401
ListInputs ==
    [ cases   |-> { Case("A", "ACTIVE", 1, 1) },
      secs    |-> { ListBody(<< Sec("X", Rat(10), RatNone, RatNone) >>) },
      books   |-> { BookBody },
      news    |-> { ListBody(<<>>), ListBody(<< News(1) >>),
                    ListBody(<< News(3), News(NoneInt), News(2) >>),
                    ListBody(<< News(0) >>), OtherBody },
      tenders |-> { ListBody(<< Tender("1", "10") >>), OtherBody },
      leases  |-> { ListBody(<< Lease("1", "10") >>), OtherBody },
      status  |-> {200, 0, 404, 500},
      limited |-> { PlainLimited },
      clock   |-> MaxClock,
      steps   |-> ForwardSteps,
      args    |-> { BooksSkippedArgs } ]

\* the inputs of the checkpoint runs: securities under a string ticker and under a
\* ticker that is a number, a list with the number 7 before the string "7", news,
\* tenders and leases that fill the state, a 404 that disables an endpoint
CheckpointInputs ==
    [ cases   |-> { Case("A", "ACTIVE", 1, 1) },
      secs    |-> { ListBody(<< Sec("X", Rat(10), Rat(9), Rat(12)) >>),
                    ListBody(<< Sec("X", Rat(11), RatNone, Rat(12)) >>),
                    ListBody(<< Sec("#7", Rat(10), Rat(9), Rat(12)) >>),
                    ListBody(<< Sec("X", Rat(10), Rat(9), Rat(12)),
                                Sec("#7", Rat(11), Rat(9), Rat(12)) >>),
                    ListBody(<< Sec("#7", Rat(10), Rat(9), Rat(12)),
                                Sec("7", Rat(11), Rat(9), Rat(12)) >>) },
      books   |-> { BookBody },
      news    |-> { ListBody(<<>>), ListBody(<< News(1) >>) },
      tenders |-> { ListBody(<< Tender("1", "10") >>) },
      leases  |-> { ListBody(<< Lease("1", "10") >>) },
      status  |-> {200, 404},
      limited |-> { PlainLimited },
      clock   |-> MaxClock,
      steps   |-> ForwardSteps,
      args    |-> { BooksSkippedArgs } ]

\* the inputs of the anchor runs: the tick or the period moves, the case or the
\* securities fetch may end the run (no response), the clock moves a second forward,
\* stands still or steps a second back between two polls, run with
\* --skip-books --skip-news --skip-tenders --skip-leases
AnchorInputs ==
    [ cases   |-> { Case("A", "ACTIVE", 1, 1), Case("A", "ACTIVE", 1, 2),
                    Case("A", "ACTIVE", 2, 1) },
      secs    |-> { ListBody(<< Sec("X", Rat(10), RatNone, RatNone) >>) },
      books   |-> { BookBody },
      news    |-> { ListBody(<<>>) },
      tenders |-> { ListBody(<<>>) },
      leases  |-> { ListBody(<<>>) },
      status  |-> {200, 0},
      limited |-> { PlainLimited },
      clock   |-> MaxClock,
      steps   |-> {-1, 0, 1},
      args    |-> { SkipAllArgs } ]

\* what one request_json call of the retry controller runs can return
RetryResponses ==
    { Response(200, OtherBody, WNone, WNone),
      Response(500, OtherBody, WNone, WNone),
      Response(429, OtherBody, WNone, WNone),
      Response(429, OtherBody, WNum(Rat(2)), WStr("1")),
      Response(429, OtherBody, WNum(Rat(-1)), WNone),
      Response(429, OtherBody, WStr("abc"), WStr("1")),
      Response(429, OtherBody, WNone, WStr("2")) }

----------------------------------------------------------------------------
(* Specifications *)

\* the readings the clock of the runs gives after now_ts: a step of D.steps within
\* the bound D.clock; the readings at or below the reading before them are counted,
\* and a behaviour holds at most MaxSlips of them
Readings(D) ==
    {n \in ClockAfter(now_ts, D.clock) :
        n - now_ts \in D.steps
            /\ (n > now_ts \/ clock_slip.same + clock_slip.back < MaxSlips)}

PollCase(D) ==
    /\ \E now \in Readings(D) :
          \E s \in Streams(Finals(D.status, {CaseBody(c) : c \in D.cases}),
                           D.limited, DefaultRetries) :
              PollCaseWith(now, Fetch(s))

PollSecurities(D) ==
    \E s \in Streams(Finals(D.status, D.secs), D.limited, DefaultRetries) :
        PollSecuritiesWith(Fetch(s))

PollBook(D) ==
    \E s \in Streams(Finals(D.status, D.books), D.limited, DefaultRetries) :
        PollBookWith(Fetch(s))

PollNews(D) ==
    \E s \in Streams(Finals(D.status, D.news), D.limited, DefaultRetries) :
        PollNewsWith(Fetch(s))

PollTenders(D) ==
    \E s \in Streams(Finals(D.status, D.tenders), D.limited, DefaultRetries) :
        PollTendersWith(Fetch(s))

PollLeases(D) ==
    \E s \in Streams(Finals(D.status, D.leases), D.limited, DefaultRetries) :
        PollLeasesWith(Fetch(s))

\* main up to its loop: state = ScrapeState.load(paths.state), no state.json yet
InitWith(D) ==
    /\ checkpoint = <<>>
    /\ state = load(<<>>)
    /\ out = EmptyOut
    /\ pc = "case"
    /\ args \in D.args
    /\ now_ts = 0
    /\ resp = NoFetch
    /\ reqs = <<>>
    /\ book_queue = <<>>
    /\ notfound = {}
    /\ first_seen = EmptyMap
    /\ case_starts = 0
    /\ last_seen = EmptyMap
    /\ clock_slip = NoSlip
    /\ tender_payload = NoFetch
    /\ rt = RetryStart(<<>>, DefaultRetries)

NextWith(D) ==
    \/ PollCase(D)
    \/ PollSecurities(D)
    \/ PollBook(D)
    \/ SkipNews
    \/ PollNews(D)
    \/ SkipTenders
    \/ PollTenders(D)
    \/ SkipLeases
    \/ PollLeases(D)
    \/ Save
    \/ Sleep
    \/ Restart

\* the poll cycle under every status on every endpoint
Init == InitWith(MainInputs)
Next == NextWith(MainInputs)
Spec == Init /\ [][Next]_vars

\* the poll cycle under every case snapshot, run with --skip-books --skip-news
\* --skip-tenders --skip-leases
InitCase == InitWith(CaseInputs)
NextCase ==
    \/ PollCase(CaseInputs)
    \/ PollSecurities(CaseInputs)
    \/ SkipNews
    \/ SkipTenders
    \/ SkipLeases
    \/ Save
    \/ Sleep
    \/ Restart
SpecCase == InitCase /\ [][NextCase]_vars

\* the poll cycle under every tenders list, run with --skip-books --skip-news
InitDedup == InitWith(DedupInputs)
NextDedup ==
    \/ PollCase(DedupInputs)
    \/ PollSecurities(DedupInputs)
    \/ SkipNews
    \/ SkipTenders
    \/ PollTenders(DedupInputs)
    \/ SkipLeases
    \/ PollLeases(DedupInputs)
    \/ Save
    \/ Sleep
    \/ Restart
SpecDedup == InitDedup /\ [][NextDedup]_vars

\* the poll cycle under every securities list
InitEnrich == InitWith(EnrichInputs)
NextEnrich == NextWith(EnrichInputs)
SpecEnrich == InitEnrich /\ [][NextEnrich]_vars

\* the poll cycle under every answer of the news, tenders and leases endpoints, run
\* with --skip-books
InitLists == InitWith(ListInputs)
NextLists ==
    \/ PollCase(ListInputs)
    \/ PollSecurities(ListInputs)
    \/ PollNews(ListInputs)
    \/ SkipTenders
    \/ PollTenders(ListInputs)
    \/ SkipLeases
    \/ PollLeases(ListInputs)
    \/ Save
    \/ Sleep
    \/ Restart
SpecLists == InitLists /\ [][NextLists]_vars

\* the poll cycle and the checkpoint, with runs stopped while state.json is written,
\* run with --skip-books
InitCheckpoint == InitWith(CheckpointInputs)
NextCheckpoint ==
    \/ PollCase(CheckpointInputs)
    \/ PollSecurities(CheckpointInputs)
    \/ PollNews(CheckpointInputs)
    \/ SkipTenders
    \/ PollTenders(CheckpointInputs)
    \/ SkipLeases
    \/ PollLeases(CheckpointInputs)
    \/ Save
    \/ SaveInterrupted
    \/ Sleep
    \/ Restart
    \/ LoadFails
SpecCheckpoint == InitCheckpoint /\ [][NextCheckpoint]_vars

\* the poll cycle under a moving tick and period, with cycles that abort and runs
\* that end and start again from the checkpoint
InitAnchors == InitWith(AnchorInputs)
NextAnchors ==
    \/ PollCase(AnchorInputs)
    \/ PollSecurities(AnchorInputs)
    \/ SkipNews
    \/ SkipTenders
    \/ SkipLeases
    \/ Save
    \/ Sleep
    \/ Restart
SpecAnchors == InitAnchors /\ [][NextAnchors]_vars

\* a request_json_with_retry call, for every retry count up to MaxRetries and every
\* sequence of answers of the server
InitRetry ==
    /\ checkpoint = <<>>
    /\ state = EmptyState
    /\ out = EmptyOut
    /\ pc = "retry"
    /\ args = DefaultArgs
    /\ now_ts = 0
    /\ resp = NoFetch
    /\ reqs = <<>>
    /\ book_queue = <<>>
    /\ notfound = {}
    /\ first_seen = EmptyMap
    /\ case_starts = 0
    /\ last_seen = EmptyMap
    /\ clock_slip = NoSlip
    /\ tender_payload = NoFetch
    /\ \E retries \in 0..MaxRetries :
          \E resps \in [1..(retries + 1) -> RetryResponses] :
              rt = RetryStart(resps, retries)

\* one iteration of the loop of request_json_with_retry
RetryAttempt ==
    /\ pc = "retry"
    /\ ~rt.done
    /\ rt' = RetryIter(rt)
    /\ UNCHANGED <<state, checkpoint, out, pc, args, now_ts, resp, reqs, book_queue, notfound,
                 first_seen, case_starts, last_seen, clock_slip, tender_payload>>

NextRetry == RetryAttempt

\* the loop is sequential code: an iteration that can run does run
SpecRetry == InitRetry /\ [][NextRetry]_vars /\ WF_vars(RetryAttempt)

----------------------------------------------------------------------------
(* Vocabulary of the properties *)

\* poll_once has returned to main, or has raised
CycleOver == pc \in {"sleep", "done", "crashed"}
CycleReturned == pc \in {"sleep", "done"}

\* the step issues a request to endpoint ep
Requests(ep) == Len(reqs') = Len(reqs) + 1 /\ reqs'[Len(reqs')].ep = ep

\* the current poll_once call got status from endpoint ep
Got(ep, status) == \E i \in DOMAIN reqs : reqs[i] = [ep |-> ep, status |-> status]

Asked(ep) == \E i \in DOMAIN reqs : reqs[i].ep = ep

NonFatalFailure(status) == status \notin {200, 401, 0}

\* the step is the case fetch of poll_once ending with a non-fatal failure
CaseFailsStep ==
    /\ pc = "case" /\ pc' # "case"
    /\ NonFatalFailure(resp'.status)

\* the step is the securities fetch of poll_once
SecuritiesStep == pc = "securities" /\ pc' # "securities"

----------------------------------------------------------------------------
(* Properties of the poll cycle *)

\* C1: after a poll cycle in which /v1/tenders (or /v1/leases) answered 404 the
\* endpoint is in disabled_endpoints, and no later cycle, of this run or of a run
\* started from the checkpoint, requests that endpoint again
C1_NotFoundIsNeverRequestedAgain ==
    /\ [](CycleOver =>
            \A ep \in {"tenders", "leases"} :
                Got(ep, 404) => ep \in state.disabled_endpoints)
    /\ [][\A ep \in {"tenders", "leases"} : Requests(ep) => ep \notin notfound]_vars

\* what C2 promises of an aborting step: the cycle ends there with no further
\* request, state.json keeps its content, and poll_once returns to the run loop
\* (which sleeps and polls again, or ends under --once)
C2_Aborted(ep) ==
    /\ reqs'[Len(reqs')].ep = ep
    /\ pc' = AfterPoll
    /\ checkpoint' = checkpoint

\* C2 as stated: a case fetch ending neither 200 nor fatal, or a securities fetch
\* that is non-200 or no list, ends the cycle without any later request and without
\* writing the checkpoint, and the run loop goes on
C2_AsStated ==
    [][ /\ CaseFailsStep => C2_Aborted("case") /\ reqs' = <<Issued("case", resp')>>
        /\ (SecuritiesStep /\ (resp'.status # 200 \/ ~IsList(resp'.body)))
              => C2_Aborted("securities") /\ Len(reqs') = 2 ]_vars

\* C2 (amended): the same, for a securities fetch whose final status is neither 200
\* nor fatal, or is 200 with a payload that is no list
C2_AbortSkipsTheCycle ==
    [][ /\ CaseFailsStep => C2_Aborted("case") /\ reqs' = <<Issued("case", resp')>>
        /\ (SecuritiesStep /\ (NonFatalFailure(resp'.status)
                                 \/ (resp'.status = 200 /\ ~IsList(resp'.body))))
              => C2_Aborted("securities") /\ Len(reqs') = 2 ]_vars

\* a second cycle aborted by a securities fetch that stayed rate-limited: the
\* checkpoint of the first cycle is kept although the state has moved on
C2_Witness ==
    /\ pc = "sleep"
    /\ resp.ep = "securities" /\ resp.status = 429
    /\ checkpoint # <<>>
    /\ checkpoint[1] # save(state)
    /\ Len(reqs) = 2

\* C3: a cycle aborted by a case or securities fetch failure rolls back: it has
\* appended no record to any log and the in-memory state is what it was
C3_AbortedCycleRollsBack ==
    [][ (CaseFailsStep
           \/ (SecuritiesStep /\ (NonFatalFailure(resp'.status)
                                    \/ (resp'.status = 200 /\ ~IsList(resp'.body)))))
        => out' = EmptyOut /\ state' = state /\ checkpoint' = checkpoint ]_vars

\* the book requests of the current poll_once call, in order
BookReqs == SelectSeq(reqs, LAMBDA q : q.ep = "book")

\* the tickers the book loop of the current poll_once call runs over
Selected == select_book_tickers(out.snapshots[1].tickers, args)

\* the positions of the selected tickers whose book came back 200
Fetched200 == SelectSeq([i \in 1..Len(BookReqs) |-> i], LAMBDA i : BookReqs[i].status = 200)

\* C9: a final 429 on the book of one ticker writes no book record and goes on with
\* the next ticker; a cycle that returns after such a 429 has requested the book of
\* every selected ticker, has run the news, tenders and leases steps and has written
\* the checkpoint
C9_BookRateLimitDoesNotAbort ==
    /\ [][ (pc = "books" /\ Requests("book") /\ resp'.status = 429)
             => /\ out' = out /\ state' = state
                /\ book_queue' = Tail(book_queue)
                /\ pc' = IF Tail(book_queue) = <<>> THEN "news" ELSE "books" ]_vars
    /\ [](CycleReturned /\ Got("book", 429) =>
            /\ Len(BookReqs) = Len(Selected)
            /\ Len(out.books) = Len(Fetched200)
            /\ \A j \in DOMAIN out.books : out.books[j].ticker = Selected[Fetched200[j]]
            /\ args.skip_news \/ Asked("news")
            /\ args.skip_tenders \/ Asked("tenders") \/ "tenders" \in state.disabled_endpoints
            /\ args.skip_leases \/ Asked("leases") \/ "leases" \in state.disabled_endpoints
            /\ checkpoint = <<save(state)>>)

\* the book of X stayed rate-limited, the book of Y was fetched and written, the
\* later steps ran and the checkpoint was written
C9_Witness ==
    /\ pc = "sleep"
    /\ Len(BookReqs) = 2
    /\ BookReqs[1].status = 429 /\ BookReqs[2].status = 200
    /\ Len(out.books) = 1 /\ out.books[1].ticker = "Y"
    /\ Asked("news") /\ Asked("tenders") /\ Asked("leases")
    /\ checkpoint = <<save(state)>>

----------------------------------------------------------------------------
(* Properties of the case event detector *)

\* the step is the case step of poll_once reaching detect_case_events
DetectStep == pc = "case" /\ pc' = "securities"

\* within a poll_once call the case events are written by the case step only
CaseEventsWrittenOnce ==
    (pc \in {"securities", "books", "news", "tenders", "leases", "save"})
        => out'.case_events = out.case_events

\* C7: with state.last_case null, the case step emits exactly one event, a case_start
\* carrying the snapshot, sets last_tick_ts and last_period_ts to now_ts and stores
\* the snapshot as last_case; the rest of the cycle emits no other case event
C7_FirstPollEmitsCaseStart ==
    [][ /\ (DetectStep /\ state.last_case = <<>>) =>
              /\ out'.case_events =
                    << [ts |-> now_ts', event |-> "case_start", case |-> resp'.body.case] >>
              /\ state'.last_tick_ts = now_ts'
              /\ state'.last_period_ts = now_ts'
              /\ state'.last_case = <<resp'.body.case>>
        /\ CaseEventsWrittenOnce ]_vars

\* the first successful case fetch of a run that found no checkpoint, at clock
\* reading 2: one case_start event, both anchors at 2
C7_Witness ==
    /\ pc = "securities"
    /\ checkpoint = <<>>
    /\ now_ts = 2
    /\ Len(out.case_events) = 1
    /\ out.case_events[1].event = "case_start"
    /\ out.case_events[1].case = state.last_case[1]
    /\ state.last_tick_ts = 2 /\ state.last_period_ts = 2

\* C8: with a stored snapshot, a poll in which only tick differs from it emits
\* exactly one event, a tick_change whose seconds_since_last_tick is now_ts minus the
\* previous last_tick_ts, sets last_tick_ts to now_ts and leaves last_period_ts alone
C8_TickOnlyChange ==
    [][ (DetectStep /\ state.last_case # <<>>) =>
            LET prev == state.last_case[1]
                case == resp'.body.case
            IN  (/\ case.name = prev.name
                 /\ case.status = prev.status
                 /\ case.period = prev.period
                 /\ case.tick # prev.tick) =>
                    /\ state.last_tick_ts # NoneInt
                    /\ out'.case_events =
                          << [ ts |-> now_ts', event |-> "tick_change",
                               prev |-> prev.tick, current |-> case.tick,
                               seconds_since_last_tick |-> now_ts' - state.last_tick_ts ] >>
                    /\ state'.last_tick_ts = now_ts'
                    /\ state'.last_period_ts = state.last_period_ts
                    /\ state'.last_case = <<case>> ]_vars

\* the third poll of a run: the tick moved at reading 2 and again at reading 3, so
\* the event measures 1 second while the period anchor still holds reading 1
C8_Witness ==
    /\ pc = "securities"
    /\ now_ts = 3
    /\ Len(out.case_events) = 1
    /\ out.case_events[1].event = "tick_change"
    /\ out.case_events[1].seconds_since_last_tick = 1
    /\ state.last_tick_ts = 3
    /\ state.last_period_ts = 1

----------------------------------------------------------------------------
(* Properties of the dedup recorder *)

\* the item carries the id field
HasId(item, id_key) == Get(item, id_key) # JNull

\* the content of an item, and of a stored fingerprint: its set of members
ContentOf(item) == Range(item)

\* for every tender object with an id, the tender objects with the same content
SameContent ==
    [ a \in {x \in TenderItems : HasId(x, "tender_id")} |->
        {b \in TenderItems : ContentOf(a) = ContentOf(b)} ]

\* C4: for every dedup map the run holds and every item with an id, a record_items
\* call with the item followed by a call with an item of the same content under the
\* same key emits nothing on the second call: it returns 0, appends no record and
\* leaves the map as the first call left it
C4_SecondCallEmitsNothing ==
    \A a \in DOMAIN SameContent :
        LET first == record_items(<<a>>, state.last_tenders, now_ts, "tender_id", "tender").map
        IN  \A b \in SameContent[a] :
                record_items(<<b>>, first, now_ts, "tender_id", "tender")
                    = [map |-> first, out |-> <<>>, count |-> 0]

\* the tenders step of a second cycle got the tender the first cycle recorded and
\* checkpointed: nothing is appended to tenders.jsonl and the map is unchanged
C4_Witness ==
    /\ pc = "leases"
    /\ resp.ep = "tenders" /\ resp.status = 200
    /\ resp.body = ListBody(<< Tender("1", "10") >>)
    /\ out.tenders = <<>>
    /\ checkpoint # <<>>
    /\ "1" \in DOMAIN checkpoint[1].last_tenders
    /\ state.last_tenders = checkpoint[1].last_tenders
    /\ state.last_tenders["1"] = fingerprint(Tender("1", "10"))

\* the step is the tenders step of poll_once reaching record_items
RecordTendersStep ==
    /\ pc = "tenders" /\ pc' = "leases"
    /\ Len(reqs') = Len(reqs) + 1
    /\ resp'.status = 200 /\ IsList(resp'.body)

\* the positions before i of the items recorded under the key of items[i]
EarlierSameKey(items, i, id_key) ==
    {j \in 1..(i - 1) : HasId(items[j], id_key)
                          /\ PyStr(Get(items[j], id_key)) = PyStr(Get(items[i], id_key))}

\* items[i] has an id and its content differs from the content last recorded under
\* its key (by an earlier item of the call, else in the map), or its key has never
\* been recorded
MustEmit(items, map, i, id_key) ==
    /\ HasId(items[i], id_key)
    /\ LET key     == PyStr(Get(items[i], id_key))
           earlier == EarlierSameKey(items, i, id_key)
       IN  IF earlier # {}
           THEN LET j == CHOOSE j \in earlier : \A k \in earlier : k <= j
                IN  ContentOf(items[j]) # ContentOf(items[i])
           ELSE key \notin DOMAIN map \/ ContentOf(map[key]) # ContentOf(items[i])

\* the positions record_items must emit a record for, in order
EmitPositions(items, map, id_key) ==
    SelectSeq([i \in 1..Len(items) |-> i], LAMBDA i : MustEmit(items, map, i, id_key))

\* the keys of the items with an id
KeysOf(items, id_key) ==
    {PyStr(Get(items[i], id_key)) : i \in {j \in DOMAIN items : HasId(items[j], id_key)}}

\* the last item of the call recorded under key
LastUnder(items, key, id_key) ==
    LET same == {i \in DOMAIN items : HasId(items[i], id_key)
                                        /\ PyStr(Get(items[i], id_key)) = key}
    IN  items[CHOOSE i \in same : \A k \in same : k <= i]

\* C5: record_items emits exactly one record for each item with an id whose content
\* differs from the content last recorded under its key or whose key has never been
\* recorded, emits no other record, and leaves under each such key the fingerprint
\* of the item
C5_EmitsExactlyOnChange ==
    [][ RecordTendersStep =>
          LET items == resp'.body.items
              map   == state.last_tenders
              emit  == EmitPositions(items, map, "tender_id")
          IN  /\ out'.tenders =
                    out.tenders \o [j \in 1..Len(emit) |->
                                       LabelledRecord(now_ts, "tender", items[emit[j]])]
              /\ state'.last_tenders =
                    [k \in DOMAIN map \cup KeysOf(items, "tender_id") |->
                        IF k \in KeysOf(items, "tender_id")
                        THEN fingerprint(LastUnder(items, k, "tender_id"))
                        ELSE map[k]] ]_vars

\* the tenders step of a second cycle got tender 1 at another price than the one the
\* first cycle recorded and checkpointed: one record is appended and the map holds
\* the new fingerprint
C5_Witness ==
    /\ pc = "leases"
    /\ resp.ep = "tenders" /\ resp.status = 200
    /\ resp.body = ListBody(<< Tender("1", "11") >>)
    /\ out.tenders = << LabelledRecord(now_ts, "tender", Tender("1", "11")) >>
    /\ checkpoint # <<>>
    /\ "1" \in DOMAIN checkpoint[1].last_tenders
    /\ checkpoint[1].last_tenders["1"] = fingerprint(Tender("1", "10"))
    /\ state.last_tenders["1"] = fingerprint(Tender("1", "11"))

----------------------------------------------------------------------------
(* Properties of the enrichment engine *)

\* C6: first_prices is write-once per ticker across poll cycles and checkpoint
\* reloads: whenever first_prices[ticker] is set, it holds the value it was first
\* set to
C6_FirstPricesWriteOnce ==
    \A t \in DOMAIN state.first_prices :
        t \in DOMAIN first_seen => state.first_prices[t] = first_seen[t]

----------------------------------------------------------------------------
(* Properties of the retry controller *)

\* the attempts of the call answered with a status other than 429
NotLimited == {i \in DOMAIN rt.resps : rt.resps[i].status # 429}

\* C10: request_json_with_retry makes at most retries + 1 attempts and terminates;
\* it returns the result of the first attempt whose status is not 429, having made
\* no attempt after it, and the result of the last attempt when every one is 429
C10_RetryIsBoundedAndReturns ==
    /\ [](rt.attempt <= rt.retries + 1)
    /\ [](rt.done =>
            IF NotLimited = {}
            THEN rt.attempt = rt.retries + 1 /\ rt.result = rt.resps[rt.retries + 1]
            ELSE LET first == CHOOSE i \in NotLimited : \A k \in NotLimited : i <= k
                 IN  rt.attempt = first /\ rt.result = rt.resps[first])
    /\ <>rt.done

\* a call with the default retry count answered 429 on all three attempts: it has
\* returned the last response
C10_Witness ==
    /\ rt.done
    /\ rt.retries = DefaultRetries
    /\ rt.attempt = DefaultRetries + 1
    /\ rt.result.status = 429
    /\ rt.result = rt.resps[DefaultRetries + 1]
    /\ rt.resps[1] # rt.resps[DefaultRetries + 1]

----------------------------------------------------------------------------
(* Properties of the wait duration *)

\* the value extract_retry_after converts: the payload's wait, the Retry-After header
\* when the payload has none
WaitOf(rsp) == IF rsp.wait.t = "none" THEN rsp.retry_after ELSE rsp.wait

\* the value converts to a float that is not negative
ValidWait(w) == ~IsNone(ToFloat(w)) /\ ToFloat(w).n >= 0

\* C11: every sleep of the retry controller after a rate-limit response whose wait
\* value is negative or does not parse lasts the fallback of 0.5 seconds
C11_NegativeOrUnparsableWaitIsFallback ==
    \A i \in DOMAIN rt.sleeps :
        ~ValidWait(WaitOf(rt.resps[i])) => rt.sleeps[i] = RetryFallback

\* C12: the sleep after a rate-limit response lasts the payload's wait when that is
\* numeric, otherwise the Retry-After header when that is valid, otherwise 0.5
\* seconds; a payload wait that is absent or not numeric falls through to the header
C12_WaitPrecedence ==
    \A i \in DOMAIN rt.sleeps :
        LET rsp == rt.resps[i]
        IN  /\ (rsp.wait.t = "num" /\ ValidWait(rsp.wait))
                  => rt.sleeps[i] = ToFloat(rsp.wait)
            /\ (rsp.wait.t # "num" /\ ValidWait(rsp.retry_after))
                  => rt.sleeps[i] = ToFloat(rsp.retry_after)
            /\ (rsp.wait.t # "num" /\ ~ValidWait(rsp.retry_after))
                  => rt.sleeps[i] = RetryFallback

\* C13: a finished request_json_with_retry call has slept once per retry: the number
\* of its sleeps is the number of its attempts minus one, none after the last attempt
C13_OneSleepPerRetry ==
    rt.done => Len(rt.sleeps) = rt.attempt - 1

\* C11 (amended): the sleep after a rate-limit response whose wait value does not
\* parse (or is absent) lasts the fallback of 0.5 seconds; after one whose wait value
\* is negative it lasts 0 seconds
C11_NegativeWaitIsZero ==
    \A i \in DOMAIN rt.sleeps :
        LET f == ToFloat(WaitOf(rt.resps[i]))
        IN  /\ IsNone(f) => rt.sleeps[i] = RetryFallback
            /\ (~IsNone(f) /\ f.n < 0) => rt.sleeps[i] = Rat(0)

\* a call that slept 0 seconds after a payload wait of -1 and 0.5 seconds after a
\* payload wait of "abc"
C11_Witness ==
    /\ rt.done
    /\ Len(rt.sleeps) = 2
    /\ rt.resps[1].wait = WNum(Rat(-1)) /\ rt.sleeps[1] = Rat(0)
    /\ rt.resps[2].wait = WStr("abc") /\ rt.sleeps[2] = RetryFallback

----------------------------------------------------------------------------
(* Properties of the failure handling *)

\* the step is a fetch of poll_once
FetchStep ==
    \/ pc = "case" /\ pc' # "case"
    \/ /\ pc \in {"securities", "books", "news", "tenders", "leases"}
       /\ Len(reqs') = Len(reqs) + 1

\* the answers to one request_json_with_retry call that end with a 401 or with a
\* connection failure, after up to DefaultRetries rate-limit responses
FatalStreams ==
    Streams({Response(s, OtherBody, WNone, WNone) : s \in {401, 0}},
            {PlainLimited}, DefaultRetries)

\* C14: a 401 or a connection failure (status 0) on any fetch of a cycle is not
\* retried, ends the run without a further request and without writing the
\* checkpoint, and the run loop starts no further cycle: all that can follow is a new
\* run of main, which loads the checkpoint
C14_FatalStatusEndsTheRun ==
    /\ [][ (FetchStep /\ Fatal(resp'.status)) =>
              /\ pc' = "crashed"
              /\ checkpoint' = checkpoint ]_vars
    /\ [][ pc = "crashed" =>
              /\ pc' = "case"
              /\ state' = load(checkpoint)
              /\ reqs' = <<>>
              /\ checkpoint' = checkpoint ]_vars
    /\ [](\A s \in FatalStreams :
            LET r == request_json_with_retry(s, DefaultRetries)
            IN  Fatal(s[Len(s)].status) =>
                   /\ r.attempt = Len(s)
                   /\ r.result = s[Len(s)])

\* a second cycle ended by a connection failure on the leases fetch, after its case,
\* securities, book, news and tenders fetches: the checkpoint is still the one of the
\* first cycle
C14_Witness ==
    /\ pc = "crashed"
    /\ resp.ep = "leases" /\ resp.status = 0
    /\ Len(reqs) >= 5
    /\ checkpoint # <<>>
    /\ checkpoint[1] # save(state)

\* the fetch got a status that is neither 200 nor fatal, or a 200 whose payload is no
\* list
ListFailure(r) ==
    NonFatalFailure(r.status) \/ (r.status = 200 /\ ~IsList(r.body))

\* state with the endpoint disabled when its fetch was answered 404
AfterListFailure(st, ep, r) ==
    IF r.status = 404 THEN [st EXCEPT !.disabled_endpoints = @ \cup {ep}] ELSE st

\* C15: a non-fatal failure of the news, tenders or leases fetch (a status other than
\* 200, 401, 0, or a payload that is no list) writes no record and goes on with the
\* next step of the cycle; a cycle that got past the securities and returned has run
\* the news, tenders and leases steps and has written the checkpoint, which holds the
\* in-memory state
C15_ListFailureIsScoped ==
    /\ [][ (FetchStep /\ ListFailure(resp')) =>
              /\ pc = "news" =>
                    /\ pc' = "tenders"
                    /\ state' = state /\ out' = out /\ checkpoint' = checkpoint
              /\ pc = "tenders" =>
                    /\ pc' = "leases"
                    /\ state' = AfterListFailure(state, "tenders", resp')
                    /\ out' = out /\ checkpoint' = checkpoint
              /\ pc = "leases" =>
                    /\ pc' = "save"
                    /\ state' = AfterListFailure(state, "leases", resp')
                    /\ out' = out /\ checkpoint' = checkpoint ]_vars
    /\ [][ pc = "save" => checkpoint' = <<save(state)>> /\ state' = state ]_vars
    /\ []((CycleReturned /\ out.snapshots # <<>>) =>
            /\ args.skip_news \/ Asked("news")
            /\ args.skip_tenders \/ Asked("tenders") \/ "tenders" \in state.disabled_endpoints
            /\ args.skip_leases \/ Asked("leases") \/ "leases" \in state.disabled_endpoints
            /\ checkpoint = <<save(state)>>)

\* a cycle whose news fetch ended 500, whose tenders fetch stayed rate-limited and
\* whose leases fetch got a payload that is no list has written the checkpoint
C15_Witness ==
    /\ pc = "sleep"
    /\ Len(reqs) = 5
    /\ reqs[3] = [ep |-> "news", status |-> 500]
    /\ reqs[4] = [ep |-> "tenders", status |-> 429]
    /\ reqs[5] = [ep |-> "leases", status |-> 200]
    /\ resp.body = OtherBody
    /\ out.news = <<>> /\ out.tenders = <<>> /\ out.leases = <<>>
    /\ checkpoint = <<save(state)>>

----------------------------------------------------------------------------
(* Properties of the news cursor *)

\* the step is the news step of poll_once writing the items of a list
RecordNewsStep ==
    /\ pc = "news" /\ pc' = "tenders"
    /\ Len(reqs') = Len(reqs) + 1
    /\ resp'.status = 200 /\ IsList(resp'.body)

\* the news ids of a payload, None (NoneInt) for the items without one
NewsIds(items) == {items[i].news_id : i \in DOMAIN items}

\* the largest of a set of ids, None ranking below every id
Largest(S) == CHOOSE m \in S : \A k \in S : k <= m

\* C16: over any sequence of poll cycles, the start of a new run after a fatal error
\* included, no step lowers last_news_id, None ranking below every id, and the news
\* step that got a list leaves it at the maximum of its previous value and the news
\* ids of the list
C16_NewsIdIsMonotone ==
    /\ [][ state.last_news_id <= state'.last_news_id ]_vars
    /\ [][ RecordNewsStep =>
             state'.last_news_id =
                Largest({state.last_news_id} \cup NewsIds(resp'.body.items)) ]_vars

\* within one run of main, and across a run that ended between two cycles, no step
\* lowers last_news_id and the news step that got a list leaves the maximum
C16_MonotoneWithinARun ==
    /\ [][ ~RestartAfterFatal => state.last_news_id <= state'.last_news_id ]_vars
    /\ [][ RecordNewsStep =>
             state'.last_news_id =
                Largest({state.last_news_id} \cup NewsIds(resp'.body.items)) ]_vars

\* a second cycle whose news fetch returned item 1 only, after the first cycle
\* checkpointed last_news_id = 3: the item is written and last_news_id stays 3
C16_Witness ==
    /\ pc = "tenders"
    /\ resp.ep = "news" /\ resp.status = 200
    /\ resp.body = ListBody(<< News(1) >>)
    /\ Len(out.news) = 1
    /\ checkpoint # <<>>
    /\ checkpoint[1].last_news_id = 3
    /\ state.last_news_id = 3

----------------------------------------------------------------------------
(* Properties of the disabled endpoints *)

\* C17: no step of a run removes a name from disabled_endpoints, saving and loading
\* the state gives the same set, a 404 on the tenders fetch adds "tenders" and nothing
\* else, a 404 on the leases fetch adds "leases" and nothing else, and no other step
\* of a cycle changes the set
C17_DisabledEndpointsIsALatch ==
    /\ [][ pc # "crashed" =>
              state.disabled_endpoints \subseteq state'.disabled_endpoints ]_vars
    /\ [](load(<<save(state)>>).disabled_endpoints = state.disabled_endpoints)
    /\ [][ ~CycleOver =>
              state'.disabled_endpoints =
                 IF FetchStep /\ pc \in {"tenders", "leases"} /\ resp'.status = 404
                 THEN state.disabled_endpoints \cup {pc}
                 ELSE state.disabled_endpoints ]_vars

\* a new run that loaded a checkpoint written after /v1/leases answered 404 and
\* /v1/tenders did not: "leases" alone is disabled
C17_Witness ==
    /\ pc = "case"
    /\ reqs = <<>>
    /\ now_ts = 1
    /\ notfound = {"leases"}
    /\ checkpoint # <<>>
    /\ checkpoint[1].disabled_endpoints = <<"leases">>
    /\ state.disabled_endpoints = {"leases"}

----------------------------------------------------------------------------
(* Properties of the checkpoint *)

\* the four fields of the state come back from save followed by load
RoundTrip(st) ==
    LET back == load(<<save(st)>>)
    IN  /\ back.disabled_endpoints = st.disabled_endpoints
        /\ back.last_prices = st.last_prices
        /\ back.first_prices = st.first_prices
        /\ back.last_news_id = st.last_news_id

\* every key of the price maps is a string
StringKeys(st) ==
    \A k \in DOMAIN st.last_prices \cup DOMAIN st.first_prices : JsonKey(k) = k

\* C18: for every state of the scraper, save followed by load gives a state with the
\* same disabled_endpoints, last_prices, first_prices and last_news_id, and loading an
\* absent checkpoint gives the empty state
C18_RoundTrip ==
    /\ RoundTrip(state)
    /\ load(<<>>) = EmptyState

\* C18 (amended): the same for every state whose price maps are keyed by strings;
\* disabled_endpoints and last_news_id come back in every state
C18_RoundTripOfStringKeys ==
    /\ StringKeys(state) => RoundTrip(state)
    /\ load(<<save(state)>>).disabled_endpoints = state.disabled_endpoints
    /\ load(<<save(state)>>).last_news_id = state.last_news_id
    /\ load(<<>>) = EmptyState

\* a new run that loaded the checkpoint of a cycle which saw ticker X and news 1 and
\* got a 404 from /v1/tenders: the loaded state has the prices, the news id and the
\* disabled endpoint
C18_Witness ==
    /\ pc = "case"
    /\ reqs = <<>>
    /\ now_ts = 1
    /\ checkpoint = <<save(state)>>
    /\ DOMAIN state.last_prices = {"X"}
    /\ state.first_prices = [t \in {"X"} |-> Rat(10)]
    /\ state.last_news_id = 1
    /\ state.disabled_endpoints = {"tenders"}

\* C19: state.json is rewritten atomically: whenever it exists it holds one complete
\* document, and a step that changes it leaves the serialization of the state
C19_CheckpointIsAtomic ==
    /\ [](~IsCut(checkpoint))
    /\ [][ checkpoint' # checkpoint => checkpoint' = <<save(state)>> ]_vars

----------------------------------------------------------------------------
(* Properties of the order of the requests *)

\* the place of an endpoint in the order of poll_once
Rank(ep) ==
    CASE ep = "case"       -> 1
      [] ep = "securities" -> 2
      [] ep = "book"       -> 3
      [] ep = "news"       -> 4
      [] ep = "tenders"    -> 5
      [] ep = "leases"     -> 6

\* C20: the requests of a poll cycle come in the order case, securities, books, news,
\* tenders, leases, each endpoint but the book once; the case events are detected
\* before the securities request; a step issues at most one request; the request log
\* of a cycle starts afresh only at the case step, which is reached only after the
\* previous cycle has returned or the run has ended
C20_RequestsAreSequential ==
    /\ [](\A i \in DOMAIN reqs : \A j \in DOMAIN reqs :
            i < j => /\ Rank(reqs[i].ep) <= Rank(reqs[j].ep)
                     /\ Rank(reqs[i].ep) = Rank(reqs[j].ep) => reqs[i].ep = "book")
    /\ [](reqs # <<>> => reqs[1].ep = "case")
    /\ [](pc = "securities" =>
            /\ resp.ep = "case" /\ resp.status = 200
            /\ reqs = <<Issued("case", resp)>>
            /\ state.last_case = <<resp.body.case>>)
    /\ [][ \/ reqs' = reqs
           \/ reqs' = <<>> /\ CycleOver
           \/ Len(reqs') = 1 /\ pc = "case"
           \/ /\ Len(reqs') = Len(reqs) + 1
              /\ SubSeq(reqs', 1, Len(reqs)) = reqs
              /\ pc \in {"securities", "books", "news", "tenders", "leases"} ]_vars
    /\ [][ (pc' = "case" /\ pc # "case") => CycleOver ]_vars

\* a cycle that has returned after requesting case, securities, the books of X and
\* Y, news, tenders and leases
C20_Witness ==
    /\ pc = "sleep"
    /\ [i \in DOMAIN reqs |-> reqs[i].ep] =
          <<"case", "securities", "book", "book", "news", "tenders", "leases">>

----------------------------------------------------------------------------
(* Properties of the four field checks *)

\* the events of the four checks, in the order detect_case_events makes them
FieldEvents == <<"case_change", "status_change", "period_change", "tick_change">>

\* the field of the snapshot an event is about
FieldOf(case, ev) ==
    CASE ev = "case_change"   -> case.name
      [] ev = "status_change" -> case.status
      [] ev = "period_change" -> case.period
      [] ev = "tick_change"   -> case.tick

\* the events whose field differs between the stored snapshot and the new one, in order
Fired(prev, case) ==
    SelectSeq(FieldEvents, LAMBDA ev : FieldOf(case, ev) # FieldOf(prev, ev))

\* the names of the events of a list
EventNames(events) == {events[i].event : i \in DOMAIN events}

\* the snapshots that carry all four fields
FullCases == {c \in CaseInputs.cases : c.name # NoneStr}

\* C21: with a stored snapshot, the case step emits for each of name, status, period,
\* tick its event (case_change, status_change, period_change, tick_change) if and
\* only if the field differs from the stored snapshot, with the previous and the
\* current value of the field, in the order name, status, period, tick; and for every
\* subset of the four fields some snapshot makes exactly the events of that subset
C21_FieldChecksAreIndependent ==
    /\ [][ (DetectStep /\ state.last_case # <<>>) =>
              LET prev  == state.last_case[1]
                  case  == resp'.body.case
                  fired == Fired(prev, case)
                  evs   == out'.case_events
              IN  /\ Len(evs) = Len(fired)
                  /\ \A i \in DOMAIN fired :
                        /\ evs[i].event = fired[i]
                        /\ evs[i].ts = now_ts'
                        /\ evs[i].prev = FieldOf(prev, fired[i])
                        /\ evs[i].current = FieldOf(case, fired[i]) ]_vars
    /\ []((state.last_case # <<>> /\ state.last_case[1] \in FullCases) =>
            {EventNames(detect_case_events(state, case, now_ts).events) :
                case \in FullCases} = SUBSET Range(FieldEvents))

\* a poll in which name, status, period and tick all differ from the stored snapshot:
\* the four events, in order
C21_Witness ==
    /\ pc = "securities"
    /\ Len(out.case_events) = 4
    /\ [i \in 1..4 |-> out.case_events[i].event] = FieldEvents
    /\ out.case_events[1].prev = "A" /\ out.case_events[1].current = "B"
    /\ out.case_events[4].prev = 1 /\ out.case_events[4].current = 2

----------------------------------------------------------------------------
(* Properties of the tracked-case state machine *)

\* C22: once last_case is set no step makes it null again, and over the poll cycles
\* that follow an empty state at most one case_start event is ever written
C22_NoExitFromTracking ==
    /\ [][ state.last_case # <<>> => state'.last_case # <<>> ]_vars
    /\ [](case_starts <= 1)

\* within one run of main the tracked case is never dropped: a step that is not the
\* start of a new run keeps last_case set and writes no second case_start
C22_NoExitWithinARun ==
    [][ (state.last_case # <<>> /\ ~(CycleOver /\ pc' = "case" /\ reqs' = <<>>))
            => state'.last_case # <<>> /\ case_starts' = case_starts ]_vars

----------------------------------------------------------------------------
(* Properties of the delta rule *)

\* the rational x is the fraction n / d
IsFraction(x, n, d) == x.d > 0 /\ x.n * d = n * x.d

\* prices to compute deltas of: null, zero, whole and fractional, negative
Prices ==
    { RatNone, Rat(0), Rat(10), Rat(11), Rat(100), Rat(110), Rat(-5),
      [n |-> 21, d |-> 2] }

\* the prices the state holds
PricesHeld ==
    {state.last_prices[t].last : t \in DOMAIN state.last_prices}
        \cup {state.last_prices[t].mid : t \in DOMAIN state.last_prices}
        \cup {state.first_prices[t] : t \in DOMAIN state.first_prices}

\* C23: diff(a, b) is a - b when both are non-null and null otherwise; pct(a, b) is
\* (a - b) / b * 100 when both are non-null and b is not 0, and null otherwise;
\* pct(110, 100) = 10 and pct(x, 0) is null for every x
C23_DeltaRule ==
    /\ \A a \in Prices \cup PricesHeld : \A b \in Prices \cup PricesHeld :
          /\ IF IsNone(a) \/ IsNone(b)
             THEN diff(a, b) = RatNone
             ELSE IsFraction(diff(a, b), a.n * b.d - b.n * a.d, a.d * b.d)
          /\ IF IsNone(a) \/ IsNone(b) \/ b.n = 0
             THEN pct_change(a, b) = RatNone
             ELSE LET num == 100 * (a.n * b.d - b.n * a.d)
                      den == a.d * b.n
                  IN  IF den > 0 THEN IsFraction(pct_change(a, b), num, den)
                      ELSE IsFraction(pct_change(a, b), -num, -den)
    /\ pct_change(Rat(110), Rat(100)) = Rat(10)
    /\ \A x \in Prices \cup PricesHeld : pct_change(x, Rat(0)) = RatNone

\* the snapshot of a second poll in which Y went from 0 to 5 and its mid from 1/2 to
\* 11/2: delta_last 5 and no pct_last (the previous last is 0), delta_mid 5 and
\* pct_mid 1000
C23_Witness ==
    /\ pc \in {"books", "news"}
    /\ checkpoint # <<>>
    /\ Len(out.snapshots) = 1
    /\ Len(out.snapshots[1].securities) = 2
    /\ LET rec == out.snapshots[1].securities[2]
       IN  /\ rec.ticker = "Y"
           /\ rec.delta_last = Rat(5)
           /\ rec.pct_last = RatNone
           /\ rec.delta_mid = Rat(5)
           /\ rec.pct_mid = Rat(1000)
           /\ rec.pct_from_start = RatNone

----------------------------------------------------------------------------
(* Properties of the enriched records *)

\* the enriched records of the snapshot the current poll_once call has written
Enriched == IF out.snapshots = <<>> THEN <<>> ELSE out.snapshots[1].securities

\* C24: every enriched record has mid = (bid + ask) / 2 when its bid and its ask are
\* both non-null and a null mid when either is null; bid 10 and ask 12 give 11
C24_MidIsHalfOfBidPlusAsk ==
    /\ \A i \in DOMAIN Enriched :
          LET rec == Enriched[i]
          IN  IF ~IsNone(rec.bid) /\ ~IsNone(rec.ask)
              THEN IsFraction(rec.mid, rec.bid.n * rec.ask.d + rec.ask.n * rec.bid.d,
                              2 * rec.bid.d * rec.ask.d)
              ELSE rec.mid = RatNone
    /\ Mid(Sec("X", Rat(10), Rat(10), Rat(12))) = Rat(11)
    /\ Mid(Sec("X", Rat(10), RatNone, Rat(12))) = RatNone
    /\ Mid(Sec("X", Rat(10), Rat(10), RatNone)) = RatNone

\* a snapshot of two records: one without bid and ask and so without mid, one with
\* bid 4 and ask 7 and mid 11/2
C24_Witness ==
    /\ Len(Enriched) = 2
    /\ Enriched[1].bid = RatNone /\ Enriched[1].ask = RatNone
    /\ Enriched[1].mid = RatNone
    /\ Enriched[2].bid = Rat(4) /\ Enriched[2].ask = Rat(7)
    /\ Enriched[2].mid = [n |-> 11, d |-> 2]

\* the step is the securities step of poll_once reaching enrich_securities
EnrichStep == pc = "securities" /\ pc' \in {"books", "news"}

\* the {last, mid} a ticker had in the latest poll that observed it, null for both
\* when no poll did
SeenBefore(ticker) ==
    IF Truthy(ticker) /\ ticker \in DOMAIN last_seen
    THEN last_seen[ticker]
    ELSE [last |-> RatNone, mid |-> RatNone]

\* the record has its deltas computed against ref
DeltasAgainst(rec, ref) ==
    /\ rec.delta_last = diff(rec.last, ref.last)
    /\ rec.pct_last = pct_change(rec.last, ref.last)
    /\ rec.delta_mid = diff(rec.mid, ref.mid)
    /\ rec.pct_mid = pct_change(rec.mid, ref.mid)

\* C25: every record of a poll has delta_last / pct_last and delta_mid / pct_mid
\* computed against the {last, mid} its ticker had in the previous poll in which it
\* was observed (null when there is none), whatever the securities list, one with the
\* same ticker twice included
C25_DeltasAgainstPreviousPoll ==
    [][ EnrichStep =>
          \A i \in DOMAIN resp'.body.items :
              DeltasAgainst(out'.snapshots[1].securities[i],
                            SeenBefore(resp'.body.items[i].ticker)) ]_vars

\* no two records of the list have the same ticker
DistinctTickers(securities) ==
    \A i \in DOMAIN securities : \A j \in DOMAIN securities :
        (i # j /\ Truthy(securities[i].ticker))
            => securities[i].ticker # securities[j].ticker

\* the same for a list of distinct tickers polled by a run whose last_prices holds
\* what the latest polls observed
C25_DeltasOfDistinctTickers ==
    [][ (EnrichStep /\ DistinctTickers(resp'.body.items)
                    /\ state.last_prices = last_seen) =>
          \A i \in DOMAIN resp'.body.items :
              DeltasAgainst(out'.snapshots[1].securities[i],
                            SeenBefore(resp'.body.items[i].ticker)) ]_vars

\* the first record of the list under ticker t whose last is non-null
FirstPriced(securities, t) ==
    LET priced == {i \in DOMAIN securities :
                      securities[i].ticker = t /\ ~IsNone(securities[i].last)}
    IN  securities[CHOOSE i \in priced : \A k \in priced : i <= k]

\* the tickers of the list that have a record with a non-null last
PricedTickers(securities) ==
    {securities[i].ticker : i \in {j \in DOMAIN securities :
                                      /\ Truthy(securities[j].ticker)
                                      /\ ~IsNone(securities[j].last)}}

\* the first record of the list under ticker t
FirstListed(securities, t) ==
    LET at == {i \in DOMAIN securities : securities[i].ticker = t}
    IN  securities[CHOOSE i \in at : \A k \in at : i <= k]

\* C26: first_prices[ticker] is recorded only when the ticker has never been seen
\* before and its last is non-null, so whenever first_prices[ticker] is present it is
\* the last of the first observation of the ticker
C26_RecordedOnFirstObservationOnly ==
    [][ EnrichStep =>
          \A t \in DOMAIN state'.first_prices \ DOMAIN state.first_prices :
              /\ t \notin DOMAIN last_seen
              /\ state'.first_prices[t] = FirstListed(resp'.body.items, t).last ]_vars

\* the same for the securities steps of a run whose last_prices holds what the latest
\* polls observed
C26_RecordedOnFirstObservationInARun ==
    [][ (EnrichStep /\ state.last_prices = last_seen) =>
          \A t \in DOMAIN state'.first_prices \ DOMAIN state.first_prices :
              /\ t \notin DOMAIN last_seen
              /\ state'.first_prices[t] = FirstListed(resp'.body.items, t).last ]_vars

\* C26 (amended): first_prices[ticker] is recorded only when the ticker has no entry
\* in first_prices and its last is non-null: the securities step leaves every entry as
\* it is, gives each other ticker of the list that has a non-null last the first
\* non-null last the list has for it, and no other step of a run changes first_prices
C26_RecordedOnFirstNonNullLast ==
    [][ IF EnrichStep
        THEN /\ DOMAIN state'.first_prices =
                   DOMAIN state.first_prices \cup PricedTickers(resp'.body.items)
             /\ \A t \in DOMAIN state.first_prices :
                   state'.first_prices[t] = state.first_prices[t]
             /\ \A t \in PricedTickers(resp'.body.items) \ DOMAIN state.first_prices :
                   state'.first_prices[t] = FirstPriced(resp'.body.items, t).last
        ELSE ~(CycleOver /\ pc' = "case")
                => state'.first_prices = state.first_prices ]_vars

\* a second poll saw X at 10 after the first poll, checkpointed, saw it without a
\* last: first_prices[X] is 10 although X was seen before
C26_Witness ==
    /\ pc \in {"books", "news"}
    /\ checkpoint # <<>>
    /\ "X" \in DOMAIN checkpoint[1].last_prices
    /\ checkpoint[1].last_prices["X"].last = RatNone
    /\ "X" \notin DOMAIN checkpoint[1].first_prices
    /\ "X" \in DOMAIN state.first_prices
    /\ state.first_prices["X"] = Rat(10)
    /\ Len(Enriched) = 1 /\ Enriched[1].last = Rat(10)

\* the records of the list that carry a ticker
Keyed(securities) ==
    {i \in DOMAIN securities : securities[i].ticker \notin {NoneStr, ""}}

\* the tickers seen in the list
Listed(securities) == {securities[i].ticker : i \in Keyed(securities)}

\* the record for ticker t in the list: the last one, when the list has several
RecordFor(securities, t) ==
    LET at == {i \in Keyed(securities) : securities[i].ticker = t}
    IN  securities[CHOOSE i \in at : \A k \in at : k <= i]

\* the list without its records that carry no ticker
KeyedOnly(securities) ==
    SelectSeq(securities, LAMBDA sec : sec.ticker \notin {NoneStr, ""})

\* C27: after enrich_securities last_prices[t] is the {last, mid} of the record for t
\* for every ticker t seen in the list; the last_prices and first_prices entries of the
\* tickers absent from the list are unchanged; a record with a missing or empty ticker
\* changes no state (the state is the one the list without such records gives, and no
\* entry is made under the missing or empty ticker) but yields an output record; the
\* output has one record per input, in input order
C27_EnrichFrame ==
    [][ EnrichStep =>
          LET items  == resp'.body.items
              listed == Listed(items)
              recs   == out'.snapshots[1].securities
          IN  /\ DOMAIN state'.last_prices = DOMAIN state.last_prices \cup listed
              /\ \A t \in listed :
                    state'.last_prices[t] =
                       [last |-> RecordFor(items, t).last,
                        mid  |-> Mid(RecordFor(items, t))]
              /\ \A t \in DOMAIN state.last_prices \ listed :
                    state'.last_prices[t] = state.last_prices[t]
              /\ DOMAIN state'.first_prices \subseteq DOMAIN state.first_prices \cup listed
              /\ \A t \in DOMAIN state.first_prices \ listed :
                    /\ t \in DOMAIN state'.first_prices
                    /\ state'.first_prices[t] = state.first_prices[t]
              /\ state' = enrich_securities(KeyedOnly(items), state).state
              /\ state' = [state EXCEPT !.last_prices = state'.last_prices,
                                        !.last_prices_keys = state'.last_prices_keys,
                                        !.first_prices = state'.first_prices,
                                        !.first_prices_keys = state'.first_prices_keys]
              /\ Len(recs) = Len(items)
              /\ \A i \in DOMAIN items :
                    /\ recs[i].ticker = items[i].ticker
                    /\ recs[i].last = items[i].last
                    /\ recs[i].bid = items[i].bid
                    /\ recs[i].ask = items[i].ask ]_vars

\* a second poll got a record with an empty ticker and a record of Y after the first
\* poll, checkpointed, saw X: two output records, an entry for Y, the entries of X as
\* they were, no entry under the empty ticker
C27_Witness ==
    /\ pc \in {"books", "news"}
    /\ checkpoint # <<>>
    /\ Len(Enriched) = 2
    /\ Enriched[1].ticker = "" /\ Enriched[2].ticker = "Y"
    /\ DOMAIN state.last_prices = {"X", "Y"}
    /\ DOMAIN checkpoint[1].last_prices = {"X"}
    /\ DOMAIN checkpoint[1].first_prices = {"X"}
    /\ DOMAIN state.first_prices = {"X", "Y"}
    /\ state.last_prices["X"] = checkpoint[1].last_prices["X"]
    /\ state.first_prices["X"] = checkpoint[1].first_prices["X"]
    /\ state.last_prices["Y"] = [last |-> Rat(0), mid |-> [n |-> 1, d |-> 2]]

----------------------------------------------------------------------------
(* Properties of the timing anchors *)

\* the seconds since an anchor, null when there is no anchor
SecondsSince(anchor, now) == IF anchor = NoneInt THEN NoneDelta ELSE now - anchor

\* C28: with a stored snapshot, the case step sets last_period_ts to now_ts if and
\* only if the period differs, the period_change event carrying now_ts minus the old
\* last_period_ts (null without an anchor); it sets last_tick_ts to now_ts if and only
\* if the tick differs, the tick_change event carrying now_ts minus the old
\* last_tick_ts; a change of name or status alone modifies neither anchor
C28_AnchorsMoveOnTheirOwnTransition ==
    [][ (DetectStep /\ state.last_case # <<>>) =>
          LET prev == state.last_case[1]
              case == resp'.body.case
              evs  == out'.case_events
          IN  /\ state'.last_period_ts =
                    IF case.period # prev.period THEN now_ts' ELSE state.last_period_ts
              /\ state'.last_tick_ts =
                    IF case.tick # prev.tick THEN now_ts' ELSE state.last_tick_ts
              /\ \A i \in DOMAIN evs :
                    /\ evs[i].event = "period_change" =>
                          evs[i].seconds_since_last_period =
                             SecondsSince(state.last_period_ts, now_ts')
                    /\ evs[i].event = "tick_change" =>
                          evs[i].seconds_since_last_tick =
                             SecondsSince(state.last_tick_ts, now_ts')
              /\ (case.period = prev.period /\ case.tick = prev.tick) =>
                    /\ state'.last_period_ts = state.last_period_ts
                    /\ state'.last_tick_ts = state.last_tick_ts ]_vars

\* the third poll of a run, at reading 3: the tick had moved at reading 2, now the
\* name and the period differ; the period_change measures 2 seconds from the anchor
\* of reading 1, last_period_ts is 3 and last_tick_ts is still 2
C28_Witness ==
    /\ pc = "securities"
    /\ now_ts = 3
    /\ Len(out.case_events) = 2
    /\ out.case_events[1].event = "case_change"
    /\ out.case_events[2].event = "period_change"
    /\ out.case_events[2].seconds_since_last_period = 2
    /\ state.last_period_ts = 3
    /\ state.last_tick_ts = 2

----------------------------------------------------------------------------
(* Properties of the items without id *)

\* the step is the leases step of poll_once reaching record_items
RecordLeasesStep ==
    /\ pc = "leases" /\ pc' = "save"
    /\ Len(reqs') = Len(reqs) + 1
    /\ resp'.status = 200 /\ IsList(resp'.body)

\* the items of the list that carry the id field
WithId(items, id_key) ==
    SelectSeq(items, LAMBDA item : HasField(item, id_key) /\ Get(item, id_key) # JNull)

\* what a record_items call made of the list: the records it appended and the map it
\* left are those the list without its id-less items gives, each record is one of an
\* item with an id, and the returned count is the number of records
SkipsMissingId(items, map, appended, map_after, now, id_key, label) ==
    LET all  == record_items(items, map, now, id_key, label)
        kept == record_items(WithId(items, id_key), map, now, id_key, label)
    IN  /\ appended = kept.out
        /\ map_after = kept.map
        /\ all.count = kept.count
        /\ all.count = Len(appended)
        /\ \A i \in DOMAIN appended : HasField(appended[i][label], id_key)
        /\ WithId(items, id_key) = <<>> =>
              appended = <<>> /\ map_after = map /\ all.count = 0
        /\ DOMAIN map_after \subseteq
              DOMAIN map \cup {PyStr(Get(items[i], id_key)) :
                                  i \in {j \in DOMAIN items : HasField(items[j], id_key)}}

\* C29: record_items skips every item that lacks the id field: the item emits no
\* record, changes no entry of the dedup map, is not counted, and the other items of
\* the list are processed as if it were not there
C29_ItemsWithoutIdAreSkipped ==
    [][ /\ RecordTendersStep =>
              LET appended == SubSeq(out'.tenders, Len(out.tenders) + 1, Len(out'.tenders))
              IN  /\ SubSeq(out'.tenders, 1, Len(out.tenders)) = out.tenders
                  /\ SkipsMissingId(resp'.body.items, state.last_tenders, appended,
                                    state'.last_tenders, now_ts, "tender_id", "tender")
        /\ RecordLeasesStep =>
              LET appended == SubSeq(out'.leases, Len(out.leases) + 1, Len(out'.leases))
              IN  /\ SubSeq(out'.leases, 1, Len(out.leases)) = out.leases
                  /\ SkipsMissingId(resp'.body.items, state.last_leases, appended,
                                    state'.last_leases, now_ts, "id", "lease") ]_vars

\* the tenders step got an item without tender_id followed by tender 1: one record,
\* the one of tender 1, and one map entry
C29_Witness ==
    /\ pc = "leases"
    /\ resp.ep = "tenders" /\ resp.status = 200
    /\ resp.body = ListBody(<< << <<"price", "10">> >>, Tender("1", "10") >>)
    /\ out.tenders = << LabelledRecord(now_ts, "tender", Tender("1", "10")) >>
    /\ DOMAIN state.last_tenders = {"1"}
    /\ checkpoint = <<>>

----------------------------------------------------------------------------
(* Properties of the fingerprint *)

\* b holds the members of a in another order
Reordered(a, b) == ContentOf(a) = ContentOf(b) /\ a # b

\* the items of the tenders list the current poll_once call got
TendersGot ==
    IF tender_payload.status = 200 /\ IsList(tender_payload.body)
    THEN tender_payload.body.items ELSE <<>>

\* the fingerprint of every tender object
FingerprintOf == [b \in TenderItems |-> fingerprint(b)]

\* C30: for every item of a tenders list and every tender object: two items with the
\* same set of field / value pairs have the same fingerprint whatever the order of
\* their fields, and two items that differ in a field or in a field value have
\* different fingerprints; so a fingerprint the dedup map holds is the fingerprint of
\* exactly the items with the content it was taken from
C30_FingerprintIsCanonical ==
    /\ \A a \in Range(TendersGot) :
          LET fp == fingerprint(a)
          IN  /\ \A b \in TenderItems :
                    (ContentOf(a) = ContentOf(b)) <=> (fp = FingerprintOf[b])
              /\ ContentOf(fp) = ContentOf(a)
    /\ \A k \in DOMAIN state.last_tenders : \A b \in TenderItems :
          (state.last_tenders[k] = FingerprintOf[b])
              <=> (ContentOf(state.last_tenders[k]) = ContentOf(b))

\* the tenders step of a second cycle got tender 1 with its members in the other
\* order than the first cycle, which recorded and checkpointed it: the fingerprints
\* are equal and nothing is appended
C30_Witness ==
    /\ pc = "leases"
    /\ resp.ep = "tenders" /\ resp.status = 200
    /\ IsList(resp.body)
    /\ Len(resp.body.items) = 1
    /\ Reordered(resp.body.items[1], Tender("1", "10"))
    /\ out.tenders = <<>>
    /\ checkpoint # <<>>
    /\ DOMAIN checkpoint[1].last_tenders = {"1"}
    /\ checkpoint[1].last_tenders["1"] = fingerprint(Tender("1", "10"))
    /\ state.last_tenders = checkpoint[1].last_tenders

----------------------------------------------------------------------------
(* Properties of the anchors of a tracked case *)

\* a state that tracks a case has both anchors
Anchored(st) ==
    st.last_case # <<>> => st.last_tick_ts # NoneInt /\ st.last_period_ts # NoneInt

\* C31: in every state reached from the empty state through poll cycles and through
\* saving and reloading the checkpoint, last_case non-null implies last_tick_ts and
\* last_period_ts non-null, in memory and in the state the checkpoint loads to; every
\* period_change and tick_change event written carries elapsed seconds that are not
\* null, and not negative as long as no reading of the clock was below the reading
\* before it
C31_TrackedCaseHasAnchors ==
    /\ Anchored(state)
    /\ ~IsCut(checkpoint) => Anchored(load(checkpoint))
    /\ \A i \in DOMAIN out.case_events :
          LET ev == out.case_events[i]
          IN  /\ ev.event = "period_change" =>
                    /\ ev.seconds_since_last_period # NoneDelta
                    /\ clock_slip.back = 0 => ev.seconds_since_last_period >= 0
              /\ ev.event = "tick_change" =>
                    /\ ev.seconds_since_last_tick # NoneDelta
                    /\ clock_slip.back = 0 => ev.seconds_since_last_tick >= 0

\* the elapsed seconds of an event are not negative whatever the clock does
C31_ElapsedIsNeverNegative ==
    \A i \in DOMAIN out.case_events :
        LET ev == out.case_events[i]
        IN  /\ ev.event = "period_change" => ev.seconds_since_last_period >= 0
            /\ ev.event = "tick_change" => ev.seconds_since_last_tick >= 0

\* a poll at the reading of the poll before it that saw the tick move: the event
\* measures 0 seconds
C31_SameReading ==
    /\ pc = "securities" /\ clock_slip.back = 0
    /\ Len(out.case_events) = 1
    /\ out.case_events[1].event = "tick_change"
    /\ out.case_events[1].seconds_since_last_tick = 0

\* a poll at reading 2 by a state whose tracked case and anchors are those of the
\* checkpoint of reading 1 (kept by the run, or loaded by a run started again): the
\* period has moved, the event measures 1 second from the period anchor, and the
\* tick anchor stays
C31_Witness ==
    /\ pc = "securities"
    /\ now_ts = 2 /\ clock_slip.back = 0
    /\ checkpoint # <<>>
    /\ checkpoint[1].last_case = << Case("A", "ACTIVE", 1, 1) >>
    /\ checkpoint[1].last_period_ts = 1
    /\ Len(out.case_events) = 1
    /\ out.case_events[1].event = "period_change"
    /\ out.case_events[1].seconds_since_last_period = 1
    /\ state.last_period_ts = 2 /\ state.last_tick_ts = 1

\* two polls in a row at the reading of the poll before them, the tick moving each
\* time: the second tick_change measures 0 seconds as well
C31_SameReadingTwice ==
    /\ pc = "securities" /\ clock_slip = [same |-> 2, back |-> 0]
    /\ Len(out.case_events) = 1
    /\ out.case_events[1].event = "tick_change"
    /\ out.case_events[1].seconds_since_last_tick = 0

----------------------------------------------------------------------------
(* Properties of a run started again after a fatal error *)

\* the items of the records a cycle appended to tenders.jsonl or leases.jsonl
ItemsOf(records, label) == [i \in DOMAIN records |-> records[i][label]]

\* a run holding state st, polling the upstream content the cycle that held state
\* before and appended logged has already seen, appends none of it again: the case as
\* tracked gives no event, every news item logged is at or below the cursor the news
\* request sends, the tenders and leases logged are in the dedup maps, and the
\* endpoints that cycle held disabled are disabled
Consistent(st, before, logged, now) ==
    /\ logged.case_events # <<>> =>
          detect_case_events(st, before.last_case[1], now).events = <<>>
    /\ \A i \in DOMAIN logged.news : logged.news[i].news.news_id <= st.last_news_id
    /\ record_items(ItemsOf(logged.tenders, "tender"), st.last_tenders,
                    now, "tender_id", "tender").out = <<>>
    /\ record_items(ItemsOf(logged.leases, "lease"), st.last_leases,
                    now, "id", "lease").out = <<>>
    /\ before.disabled_endpoints \subseteq st.disabled_endpoints

\* C32: when a run ended by a fatal error in the middle of a cycle is started again
\* from the checkpoint, the state it loads is consistent with the logs: no case
\* event, news item, tender or lease record the interrupted cycle appended is
\* appended again for unchanged upstream content, and an endpoint that cycle
\* disabled is not requested again
C32_LogsAndCheckpointAgree ==
    [][ RestartAfterFatal => Consistent(state', state, out, now_ts) ]_vars

\* the same for a run started again after a cycle that reached state.save
C32_AgreeAfterSave ==
    [][ (CycleReturned /\ pc' = "case" /\ reqs' = <<>> /\ checkpoint = <<save(state)>>)
            => Consistent(state', state, out, now_ts) ]_vars

====
